---- MODULE Spec2Model ----
(***************************************************************************)
(* A model of the node engine behind the Eth RPC interface                 *)
(* (anvil/src/eth/api.rs): the handlers of EthApi, the transaction pool    *)
(* they feed, the backend they mine into, snapshots, filters, the cheat    *)
(* controller, the miner and gas estimation.  The handlers are translated  *)
(* from api.rs; the pool, the backend, the executor, the filter registry   *)
(* and the miner live outside the files at hand and are modelled from the  *)
(* written specification.                                                  *)
(***************************************************************************)
EXTENDS Integers, Sequences, FiniteSets, TLC

(***************************************************************************)
(* Bounds of the model.                                                    *)
(***************************************************************************)
\* largest nonce a request or a raw transaction carries
MaxNonce == 2
\* largest gas price a request carries
MaxPrice == 2
\* most transactions the pool holds at once
MaxPool == 2
\* most blocks committed in one behaviour
MaxBlocks == 1
\* most snapshots taken in one behaviour
MaxSnapshots == 2
\* most filters installed in one behaviour
MaxFilters == 1
\* how far the wall clock runs, in seconds
MaxClock == 3
\* longest block time evm_setIntervalMining sets, in seconds
MaxInterval == 2
\* most blocks one evm_mine or anvil_mine call asks for
MaxMine == 2
\* largest calldata of an estimated request, in bytes
MaxData == 1
\* most blocks committed where filters and the miner are looked at
MaxChain == 2
\* most transactions waiting in the pool where impersonation and filters are looked at
MaxWaiting == 1
\* the highest block a fork is pinned at
MaxPin == 1
\* the highest nonce required_marker is applied to
MaxMarkerNonce == 7
\* the latest time the time handlers are given, in seconds
MaxTimestamp == 3
\* the highest block number of the remote a fork is initialised from
MaxHead == 3
\* how far the block gas limit lies above the gas of a transfer where the
\* binary search is walked
MaxSpan == 6
\* most remote calls in one behaviour where the delegation is looked at
MaxRemoteCalls == 1
\* most remote calls in one behaviour where the fork cache is looked at
MaxFetches == 2

(***************************************************************************)
(* Constants of the node.                                                  *)
(***************************************************************************)
\* backend::mem::MIN_TRANSACTION_GAS, the gas of a plain transfer
MIN_TRANSACTION_GAS == 21000
\* backend::mem::MIN_CREATE_GAS, the gas of an empty contract creation
MIN_CREATE_GAS == 53000
\* the gas of one byte of calldata
DataGas == 16
\* NodeConfig: the gas limit of a block
DefaultGasLimit == 30000000
\* NodeConfig: the balance a dev account is created with
GenesisBalance == 10000000

(***************************************************************************)
(* The universe of inputs.                                                 *)
(***************************************************************************)
\* "A" has no signer, "B" is the dev account a signer holds
Address == {"A", "B"}
\* self.signers: one signer, holding one account
SignerAccounts == <<"B">>
Nonces == 0..MaxNonce
Prices == 1..MaxPrice
TransactionOrder == {"Fifo", "Fees"}
\* contract code: none, STOP, JUMPDEST STOP, REVERT
Codes == {"", "0x00", "0x5b00", "0xfd"}
\* the clients that read state through the RPC interface
Readers == {"r1", "r2"}

VARIABLES
    pool,               \* Pool: the pooled transactions, in insertion order
    transaction_order,  \* EthApi.transaction_order
    db,                 \* backend: the committed account table
    blocks,             \* backend: the committed chain after genesis
    gas_limit,          \* backend: the gas limit of the next block
    time,               \* backend: the time controller
    clock,              \* the wall clock, in seconds
    snapshots,          \* backend: the snapshots, by id
    next_snapshot_id,   \* backend: the id of the next snapshot
    impersonated,       \* cheats: the impersonation set
    auto_impersonate,   \* cheats: the auto-impersonate flag
    filters,            \* Filters: the installed filters, by id
    fork,               \* backend: the fork client, when the node is a fork
    next_filter_id,     \* Filters: the id of the next filter
    mining_mode,        \* Miner: the mining mode
    miner_task,         \* mine_one in progress: its position and its snapshot
    calls,              \* the handlers that stand between two of their awaits
    est,                \* eth_estimateGas: the binary search in progress
    result              \* the last request and its response

vars == <<pool, transaction_order, db, blocks, gas_limit, time, clock,
          snapshots, next_snapshot_id, impersonated, auto_impersonate,
          filters, fork, next_filter_id, mining_mode, miner_task, calls, est,
          result>>

(***************************************************************************)
(* Markers and pool transactions.                                          *)
(***************************************************************************)
\* to_marker(nonce, from): the (sender, nonce) pair
to_marker(nonce, from) == <<from, nonce>>

\* U256::saturating_sub
saturating_sub(a, b) == IF a >= b THEN a - b ELSE 0

\* required_marker with a slip: every nonce from the on-chain nonce up to the
\* given one is required, the transaction's own marker included
required_marker_through(provided_nonce, on_chain_nonce, from) ==
    IF provided_nonce = on_chain_nonce
    THEN <<>>
    ELSE LET prev_nonce == saturating_sub(provided_nonce, 1)
         IN  IF on_chain_nonce <= prev_nonce
             THEN <<to_marker(prev_nonce, from), to_marker(provided_nonce, from)>>
             ELSE <<>>

\* required_marker without its first test: the nonce before is required
\* whenever the on-chain nonce is not above it
required_marker_unguarded(provided_nonce, on_chain_nonce, from) ==
    LET prev_nonce == saturating_sub(provided_nonce, 1)
    IN  IF on_chain_nonce <= prev_nonce
        THEN <<to_marker(prev_nonce, from)>>
        ELSE <<>>

\* required_marker: the markers a transaction with provided_nonce waits for,
\* given the nonce the caller takes as the on-chain one
required_marker(provided_nonce, on_chain_nonce, from) ==
    IF provided_nonce = on_chain_nonce
    THEN <<>>
    ELSE LET prev_nonce == saturating_sub(provided_nonce, 1)
         IN  IF on_chain_nonce <= prev_nonce
             THEN <<to_marker(prev_nonce, from)>>
             ELSE <<>>

\* EthApi::transaction_priority: under Fees the gas price, under Fifo the
\* insertion sequence (the position in the pool)
transaction_priority(tx) ==
    IF transaction_order = "Fees"
    THEN [kind |-> "Fees", v |-> tx.gas_price]
    ELSE [kind |-> "Fifo", v |-> 0]

\* the PendingTransaction inside a PoolTransaction: what a block keeps, and
\* what the transaction hash is computed from
Pending(t) ==
    [sender |-> t.sender, nonce |-> t.nonce, gas_price |-> t.gas_price,
     gas_limit |-> t.gas_limit, value |-> t.value, signature |-> t.signature]

\* what a transaction may cost its sender: value + gas * gas_price
Cost(tx) == tx.value + tx.gas_limit * tx.gas_price

Range(s) == {s[i] : i \in 1..Len(s)}

Min(a, b) == IF a <= b THEN a ELSE b

RECURSIVE RemoveAt(_, _)
RemoveAt(s, idx) ==
    IF s = <<>> THEN <<>>
    ELSE LET n == Len(s)
             front == RemoveAt(SubSeq(s, 1, n - 1), idx)
         IN  IF n \in idx THEN front ELSE Append(front, s[n])

(***************************************************************************)
(* The backend's executor (modelled from the specification, 4.3 and 4.6).  *)
(***************************************************************************)
\* pre-execution validation that lets any nonce pass
ExecValidAnyNonce(tx, state) ==
    /\ state[tx.sender].balance >= Cost(tx)
    /\ tx.gas_limit >= MIN_TRANSACTION_GAS

\* pre-execution validation while mining: nonce in sequence, funds at hand,
\* the base gas floor
ExecValid(tx, state) ==
    /\ tx.nonce = state[tx.sender].nonce
    /\ state[tx.sender].balance >= Cost(tx)
    /\ tx.gas_limit >= MIN_TRANSACTION_GAS

\* the gas the execution of a transaction uses: a transfer runs no code
transaction_gas_used(tx) == MIN_TRANSACTION_GAS

\* a transfer: the nonce moves by one, the sender pays value and gas
ApplyTx(tx, state) ==
    [state EXCEPT ![tx.sender] =
        [@ EXCEPT !.nonce = @ + 1,
                  !.balance = @ - (tx.value + transaction_gas_used(tx) * tx.gas_price)]]

\* the gas used by the transactions of a block, accumulated in their order
RECURSIVE cumulative_gas_used(_)
cumulative_gas_used(txs) ==
    IF txs = <<>> THEN 0
    ELSE transaction_gas_used(Head(txs)) + cumulative_gas_used(Tail(txs))

\* executes the transactions in order; a transaction that fails validation
\* is skipped
RECURSIVE execute_transactions(_, _, _)
execute_transactions(txs, state, included) ==
    IF txs = <<>>
    THEN [db |-> state, included |-> included]
    ELSE IF ExecValid(Head(txs), state)
         THEN execute_transactions(Tail(txs), ApplyTx(Head(txs), state),
                                   Append(included, Pending(Head(txs))))
         ELSE execute_transactions(Tail(txs), state, included)

(***************************************************************************)
(* The pool (modelled from the specification, 4.5).                        *)
(***************************************************************************)
\* a marker the committed chain already provides
OnChain(m, state) == m[2] < state[m[1]].nonce

\* the transaction at position i may be yielded once `done` were
Independent(p, i, done, state) ==
    \A k \in 1..Len(p[i].requires) :
        \/ OnChain(p[i].requires[k], state)
        \/ \E j \in done : p[i].requires[k] \in Range(p[j].provides)

\* position i comes before position j in the pool's priority order
Before(p, i, j) ==
    IF p[i].priority.kind = "Fees" /\ p[j].priority.kind = "Fees"
    THEN \/ p[i].priority.v > p[j].priority.v
         \/ /\ p[i].priority.v = p[j].priority.v
            /\ IF p[i].sender = p[j].sender /\ p[i].nonce # p[j].nonce
               THEN p[i].nonce < p[j].nonce
               ELSE i < j
    ELSE i < j

RECURSIVE ReadyFrom(_, _, _, _)
ReadyFrom(p, done, acc, state) ==
    LET cand == {i \in (1..Len(p)) \ done : Independent(p, i, done, state)}
    IN  IF cand = {} THEN acc
        ELSE LET best == CHOOSE i \in cand : \A j \in cand \ {i} : Before(p, i, j)
             IN  ReadyFrom(p, done \cup {best}, Append(acc, p[best]), state)

\* Pool::ready_transactions: the ready transactions, dependencies first and
\* by priority among those that may come next
ready_transactions(p, state) == ReadyFrom(p, {}, <<>>, state)

\* Pool::pending_transactions: the queued transactions
pending_transactions(p, state) ==
    LET ready == Range(ready_transactions(p, state))
    IN  SelectSeq(p, LAMBDA t : t \notin ready)

\* Pool::add_transaction that takes every transaction
add_transaction_unchecked(p, tx) == [ret |-> "Ok", pool |-> Append(p, tx)]

\* Pool::add_transaction: a transaction whose marker is already provided is
\* rejected at equal or lower priority and replaces the entry otherwise
add_transaction(p, tx) ==
    LET same == {i \in 1..Len(p) : p[i].provides = tx.provides}
        higher(i) == /\ tx.priority.kind = "Fees"
                     /\ p[i].priority.kind = "Fees"
                     /\ tx.priority.v > p[i].priority.v
    IN  IF \E i \in same : ~higher(i)
        THEN [ret |-> "ReplacementUnderpriced", pool |-> p]
        ELSE [ret |-> "Ok", pool |-> Append(RemoveAt(p, same), tx)]

\* Pool::drop_transaction: removes the transaction with the hash and returns
\* it, if present
drop_transaction(p, hash) ==
    LET at == {i \in 1..Len(p) : Pending(p[i]) = hash}
    IN  [ret |-> IF at = {} THEN <<>> ELSE <<hash>>, pool |-> RemoveAt(p, at)]

\* Pool::on_mined_block: the included transactions leave the pool
on_mined_block(p, included) ==
    SelectSeq(p, LAMBDA t : Pending(t) \notin Range(included))

(***************************************************************************)
(* The backend's queries (modelled from the specification, 4.1 and 7).     *)
(***************************************************************************)
\* Backend::current_nonce: the committed nonce
current_nonce(address) == db[address].nonce

\* Backend::get_nonce at the pending block: the nonce after the pool's ready
\* transactions were executed on top of the committed state
pending_nonce(address) ==
    execute_transactions(ready_transactions(pool, db), db, <<>>).db[address].nonce

\* Backend::validate_pool_transaction: gas limit against the block cap, nonce
\* against the chain, balance against value + gas * gas_price
validate_pool_transaction(tx) ==
    IF tx.gas_limit > gas_limit THEN "GasTooHigh"
    ELSE IF tx.nonce < db[tx.sender].nonce THEN "NonceTooLow"
    ELSE IF db[tx.sender].balance < Cost(tx) THEN "InsufficientFunds"
    ELSE "Ok"

\* CheatsManager::is_impersonated
cheats_is_impersonated(addr) == auto_impersonate \/ addr \in impersonated

(***************************************************************************)
(* Notifications (modelled from the specification, 4.5 to 4.7).            *)
(***************************************************************************)
\* the pool tells its ready-listeners: the pending-transaction filters
notify_ready_filters(fs, hash) ==
    [id \in DOMAIN fs |->
        IF fs[id].kind = "PendingTransactions"
        THEN [fs[id] EXCEPT !.queue = Append(@, hash)]
        ELSE fs[id]]

\* the pool tells its ready-listeners: the instant miner
notify_ready_miner(mode) ==
    IF mode.kind = "Auto" THEN [mode EXCEPT !.signalled = TRUE] ELSE mode

\* the logs of a block; each transaction of the model leaves one log
block_logs(block) ==
    [i \in 1..Len(block.transactions) |-> [block |-> block.number, index |-> i]]

\* the backend tells the new-block listeners: the block filters take the
\* hash, the logs filters the logs of the block
notify_new_block(fs, block) ==
    [id \in DOMAIN fs |->
        IF fs[id].kind = "Blocks"
        THEN [fs[id] EXCEPT !.queue = Append(@, block.hash)]
        ELSE IF fs[id].kind = "Logs"
        THEN [fs[id] EXCEPT !.queue = @ \o block_logs(block)]
        ELSE fs[id]]

(***************************************************************************)
(* Sending transactions (api.rs).                                          *)
(***************************************************************************)
Has(r, f) == f \in DOMAIN r

\* EthApi::is_impersonated
is_impersonated(addr) == cheats_is_impersonated(addr)

\* EthApi::get_transaction_count at the pending block (no fork)
get_transaction_count_pending(address) == pending_nonce(address)

\* EthApi::request_nonce: (request nonce, highest nonce)
request_nonce(request, from) ==
    LET highest_nonce == get_transaction_count_pending(from)
    IN  <<IF Has(request, "nonce") THEN request.nonce ELSE highest_nonce,
          highest_nonce>>

\* EthApi::build_typed_tx_request: the legacy request with its nonce set
build_typed_tx_request(request, nonce) ==
    [nonce |-> nonce, gas_price |-> request.gas_price,
     gas_limit |-> IF Has(request, "gas") THEN request.gas ELSE gas_limit,
     value |-> request.value]

\* EthApi::sign_request: whether some signer holds `from`
can_sign(from) == from \in Range(SignerAccounts)

\* the PoolTransaction built around a pending transaction
PoolTransaction(typed, sender, signature, requires, provides) ==
    [sender |-> sender, nonce |-> typed.nonce, gas_price |-> typed.gas_price,
     gas_limit |-> typed.gas_limit, value |-> typed.value,
     signature |-> signature, requires |-> requires, provides |-> provides,
     priority |-> transaction_priority(typed)]

Rejected(err) == [ret |-> err, pool |-> pool]

\* EthApi::add_pending_transaction
add_pending_transaction(typed, sender, signature, requires, provides) ==
    LET pool_transaction ==
            PoolTransaction(typed, sender, signature, requires, provides)
    IN  add_transaction(pool, pool_transaction)

\* EthApi::send_transaction with the two branches in the wrong order: the
\* signer is asked first, also for an impersonated sender
send_transaction_sign_first(request, from) ==
    LET rn == request_nonce(request, from)
        nonce == rn[1]
        on_chain_nonce == rn[2]
        typed == build_typed_tx_request(request, nonce)
        signature == IF can_sign(from) THEN "signed" ELSE "bypass"
        probe == PoolTransaction(typed, from, signature, <<>>, <<>>)
        requires == required_marker(nonce, on_chain_nonce, from)
        provides == <<to_marker(nonce, from)>>
    IN  IF ~can_sign(from)
        THEN Rejected("NoSignerAvailable")
        ELSE IF validate_pool_transaction(probe) # "Ok"
        THEN Rejected(validate_pool_transaction(probe))
        ELSE add_pending_transaction(typed, from, signature, requires, provides)

\* the body of EthApi::send_transaction once `from` is known
send_transaction_from(request, from) ==
    LET rn == request_nonce(request, from)
        nonce == rn[1]
        on_chain_nonce == rn[2]
        typed == build_typed_tx_request(request, nonce)
        signature == IF is_impersonated(from) THEN "bypass" ELSE "signed"
        probe == PoolTransaction(typed, from, signature, <<>>, <<>>)
        requires == required_marker(nonce, on_chain_nonce, from)
        provides == <<to_marker(nonce, from)>>
    IN  IF ~is_impersonated(from) /\ ~can_sign(from)
        THEN Rejected("NoSignerAvailable")
        ELSE IF validate_pool_transaction(probe) # "Ok"
        THEN Rejected(validate_pool_transaction(probe))
        ELSE add_pending_transaction(typed, from, signature, requires, provides)

\* EthApi::send_transaction, the response and the pool it leaves
send_transaction_outcome(request) ==
    IF Has(request, "from")
    THEN send_transaction_from(request, request.from)
    ELSE IF SignerAccounts = <<>>
         THEN Rejected("NoSignerAvailable")
         ELSE send_transaction_from(request, SignerAccounts[1])

\* EthApi::eth_send_unsigned_transaction, the response and the pool it leaves
eth_send_unsigned_transaction_outcome(request) ==
    IF ~Has(request, "from")
    THEN Rejected("NoSignerAvailable")
    ELSE LET from == request.from
             rn == request_nonce(request, from)
             nonce == rn[1]
             on_chain_nonce == rn[2]
             typed == build_typed_tx_request(request, nonce)
             probe == PoolTransaction(typed, from, "bypass", <<>>, <<>>)
             requires == required_marker(nonce, on_chain_nonce, from)
             provides == <<to_marker(nonce, from)>>
         IN  IF validate_pool_transaction(probe) # "Ok"
             THEN Rejected(validate_pool_transaction(probe))
             ELSE add_pending_transaction(typed, from, "bypass", requires, provides)

\* EthApi::send_raw_transaction that hands the transaction to the pool
\* before it validates it
send_raw_transaction_outcome_insert_first(raw) ==
    IF raw.bytes = "empty"
    THEN Rejected("EmptyRawTransactionData")
    ELSE IF raw.bytes = "undecodable"
    THEN Rejected("FailedToDecodeSignedTransaction")
    ELSE LET typed == raw.tx
             from == raw.sender
             probe == PoolTransaction(typed, from, "signed", <<>>, <<>>)
             requires == required_marker(typed.nonce, current_nonce(from), from)
             pool_transaction ==
                 PoolTransaction(typed, from, "signed", requires,
                                 <<to_marker(typed.nonce, from)>>)
             added == add_transaction(pool, pool_transaction)
         IN  IF validate_pool_transaction(probe) # "Ok"
             THEN [ret |-> validate_pool_transaction(probe), pool |-> added.pool]
             ELSE added

\* EthApi::send_raw_transaction, the response and the pool it leaves.  The
\* bytes are either empty, not a decodable legacy transaction, or the
\* encoding of a signed legacy transaction whose sender is recovered
send_raw_transaction_outcome(raw) ==
    IF raw.bytes = "empty"
    THEN Rejected("EmptyRawTransactionData")
    ELSE IF raw.bytes = "undecodable"
    THEN Rejected("FailedToDecodeSignedTransaction")
    ELSE LET typed == raw.tx
             from == raw.sender
             probe == PoolTransaction(typed, from, "signed", <<>>, <<>>)
             on_chain_nonce == current_nonce(from)
             nonce == typed.nonce
             requires == required_marker(nonce, on_chain_nonce, from)
             pool_transaction ==
                 PoolTransaction(typed, from, "signed", requires,
                                 <<to_marker(nonce, from)>>)
         IN  IF validate_pool_transaction(probe) # "Ok"
             THEN Rejected(validate_pool_transaction(probe))
             ELSE add_transaction(pool, pool_transaction)

\* whether the transaction the pool just took is ready
AddedReady(out) ==
    /\ out.ret = "Ok"
    /\ out.pool[Len(out.pool)] \in Range(ready_transactions(out.pool, db))

\* what a submission leaves behind: the pool, and the listeners the pool
\* tells when the transaction is ready
Delivered(op, from, out) ==
    /\ pool' = out.pool
    /\ filters' = IF AddedReady(out)
                  THEN notify_ready_filters(filters, Pending(out.pool[Len(out.pool)]))
                  ELSE filters
    /\ mining_mode' = IF AddedReady(out)
                      THEN notify_ready_miner(mining_mode)
                      ELSE mining_mode
    /\ result' = [op |-> op, from |-> from, ret |-> out.ret]
    /\ UNCHANGED <<transaction_order, miner_task, fork, db, blocks, gas_limit, time, clock,
                   snapshots, next_snapshot_id, impersonated,
                   auto_impersonate, next_filter_id, est>>

\* a submission made in one piece
Submitted(op, from, out) == Delivered(op, from, out) /\ UNCHANGED calls

\* the sender a request names, "" when it names none
sender_of(request) == IF Has(request, "from") THEN request.from ELSE ""

\* eth_sendTransaction; a request without `from` is sent by the first account
send_transaction(request) ==
    Submitted("eth_sendTransaction",
              IF ~Has(request, "from") /\ SignerAccounts # <<>>
              THEN SignerAccounts[1]
              ELSE sender_of(request),
              send_transaction_outcome(request))

\* eth_sendUnsignedTransaction
eth_send_unsigned_transaction(request) ==
    Submitted("eth_sendUnsignedTransaction", sender_of(request),
              eth_send_unsigned_transaction_outcome(request))

\* eth_sendRawTransaction
send_raw_transaction(raw) ==
    Submitted("eth_sendRawTransaction",
              IF raw.bytes = "legacy" THEN raw.sender ELSE "",
              send_raw_transaction_outcome(raw))

\* anvil_dropTransaction
anvil_drop_transaction(tx_hash) ==
    LET out == drop_transaction(pool, tx_hash)
    IN  /\ pool' = out.pool
        /\ result' = [op |-> "anvil_dropTransaction", tx_hash |-> tx_hash,
                      ret |-> out.ret]
        /\ UNCHANGED <<transaction_order, miner_task, calls, fork, db, blocks, gas_limit, time, clock,
                       snapshots, next_snapshot_id, impersonated,
                       auto_impersonate, filters, next_filter_id,
                       mining_mode, est>>

\* the map of the txpool namespace filled from the transactions in turn:
\* per sender and nonce the converted transaction, a later entry taking the
\* place of an earlier one with the same key
txpool_entries(txs, convert(_)) ==
    [key \in {<<txs[i].sender, txs[i].nonce>> : i \in 1..Len(txs)} |->
        LET last == CHOOSE i \in 1..Len(txs) :
                        /\ <<txs[i].sender, txs[i].nonce>> = key
                        /\ \A j \in (i + 1)..Len(txs) :
                               <<txs[j].sender, txs[j].nonce>> # key
        IN  convert(txs[last])]

\* txpool_inspect's convert: the summary of a transaction
inspect_summary(tx) ==
    [value |-> tx.value, energy |-> tx.gas_limit, energy_price |-> tx.gas_price]

\* txpool_content's convert: the transaction, from its sender
content_transaction(tx) == [from |-> tx.sender, transaction |-> Pending(tx)]

\* txpool_inspect: the ready transactions and then the queued ones are
\* entered into `pending`; `queued` is left as created
txpool_inspect ==
    /\ result' = [op |-> "txpool_inspect",
                  pending |-> txpool_entries(ready_transactions(pool, db)
                                                 \o pending_transactions(pool, db),
                                             inspect_summary),
                  queued |-> <<>>]
    /\ UNCHANGED <<pool, transaction_order, miner_task, calls, fork, db, blocks, gas_limit, time, clock,
                   snapshots, next_snapshot_id, impersonated,
                   auto_impersonate, filters, next_filter_id,
                   mining_mode, est>>

\* txpool_content: the same with whole transactions
txpool_content ==
    /\ result' = [op |-> "txpool_content",
                  pending |-> txpool_entries(ready_transactions(pool, db)
                                                 \o pending_transactions(pool, db),
                                             content_transaction),
                  queued |-> <<>>]
    /\ UNCHANGED <<pool, transaction_order, miner_task, calls, fork, db, blocks, gas_limit, time, clock,
                   snapshots, next_snapshot_id, impersonated,
                   auto_impersonate, filters, next_filter_id,
                   mining_mode, est>>

(***************************************************************************)
(* Mining (api.rs, with Backend::mine_block from the specification, 4.6).  *)
(***************************************************************************)
\* no mine_one is between its snapshot and its commit; `transactions` keeps
\* the snapshot of the last one
NoTask == [pc |-> "idle", transactions |-> <<>>]

\* the callers whose handlers run side by side
Callers == 1..2

\* a caller without a handler in progress, and a handler in progress: where
\* it stands and what it holds in its local variables
NoCall ==
    [op |-> "none", pc |-> "idle", transactions |-> <<>>, outcome |-> <<>>,
     mined_blocks |-> 0, request |-> <<>>, from |-> "", nonce |-> 0,
     on_chain_nonce |-> 0, signature |-> "", ret |-> ""]

NoCalls == [c \in Callers |-> NoCall]

\* the part of the node a mined block touches, and the wall clock it is
\* mined at
Node ==
    [pool |-> pool, db |-> db, blocks |-> blocks, time |-> time,
     filters |-> filters, clock |-> clock]

\* the timestamp of the last block, the genesis block being of time 0
last_timestamp(chain) ==
    IF chain = <<>> THEN 0 ELSE chain[Len(chain)].timestamp

\* TimeManager::next_timestamp: the timestamp set for the next block, or the
\* last timestamp moved by the interval, or the wall clock moved by the
\* offset
next_timestamp(t, now, last) ==
    IF t.next_timestamp # <<>> THEN t.next_timestamp[1]
    ELSE IF t.interval # <<>> THEN last + t.interval[1]
    ELSE now + t.offset

\* Backend::mine_block: executes the transactions, commits the block and
\* tells the new-block listeners
mine_block(node, transactions) ==
    LET exec == execute_transactions(transactions, node.db, <<>>)
        timestamp == next_timestamp(node.time, node.clock,
                                    last_timestamp(node.blocks))
        block == [hash |-> Len(node.blocks) + 1,
                  number |-> Len(node.blocks) + 1,
                  timestamp |-> timestamp,
                  gas_limit |-> gas_limit,
                  gas_used |-> cumulative_gas_used(exec.included),
                  transactions |-> exec.included]
    IN  [node EXCEPT !.db = exec.db,
                     !.blocks = Append(@, block),
                     !.time = [@ EXCEPT !.offset = timestamp - node.clock,
                                         !.next_timestamp = <<>>],
                     !.filters = notify_new_block(@, block)]

\* EthApi::mine_one after the snapshot: mine the transactions, tell the pool
mine_transactions(node, transactions) ==
    LET mined == mine_block(node, transactions)
        outcome == mined.blocks[Len(mined.blocks)]
    IN  [mined EXCEPT !.pool = on_mined_block(@, outcome.transactions)]

\* EthApi::mine_one: snapshot the ready transactions, mine, tell the pool
mine_one(node) ==
    mine_transactions(node, ready_transactions(node.pool, node.db))

RECURSIVE mine_blocks(_, _)
mine_blocks(node, n) == IF n = 0 THEN node ELSE mine_blocks(mine_one(node), n - 1)

\* what mining leaves behind
Mined(node) ==
    /\ pool' = node.pool
    /\ db' = node.db
    /\ blocks' = node.blocks
    /\ time' = node.time
    /\ filters' = node.filters

\* what the two halves of mine_one leave alone
TaskUnchanged ==
    UNCHANGED <<transaction_order, calls, fork, gas_limit, clock, snapshots,
                next_snapshot_id, impersonated, auto_impersonate,
                next_filter_id, mining_mode, est, result>>

\* EthApi::mine_one up to its first await: the ready transactions are
\* collected from the pool
mine_one_snapshot ==
    /\ miner_task.pc = "idle"
    /\ miner_task' = [pc |-> "mining",
                      transactions |-> ready_transactions(pool, db)]
    /\ UNCHANGED <<pool, db, blocks, time, filters>>
    /\ TaskUnchanged

\* the rest of mine_one with the ready transactions read again when the
\* block is built
mine_one_commit_reread ==
    /\ miner_task.pc = "mining"
    /\ Mined(mine_transactions(Node, ready_transactions(pool, db)))
    /\ miner_task' = [miner_task EXCEPT !.pc = "idle"]
    /\ TaskUnchanged

\* the rest of EthApi::mine_one: Backend::mine_block over the collected
\* transactions, then Pool::on_mined_block
mine_one_commit ==
    /\ miner_task.pc = "mining"
    /\ Mined(mine_transactions(Node, miner_task.transactions))
    /\ miner_task' = [miner_task EXCEPT !.pc = "idle"]
    /\ TaskUnchanged

\* an optional field of a request, as the response record keeps it
Option(r, f) == IF Has(r, f) THEN <<r[f]>> ELSE <<>>

\* TimeManager::set_next_block_timestamp returns a Result: the time manager
\* takes the timestamp or refuses it
set_next_block_timestamp(t, seconds, accepted) ==
    IF accepted
    THEN [ret |-> "Ok", time |-> [t EXCEPT !.next_timestamp = <<seconds>>]]
    ELSE [ret |-> "TimestampError", time |-> t]

\* the answers the time manager may give to the timestamp of the options
Answers(opts) == IF Has(opts, "timestamp") THEN BOOLEAN ELSE {TRUE}

\* EthApi::do_evm_mine: how many blocks the options ask for
blocks_to_mine(opts) == IF Has(opts, "blocks") THEN opts.blocks ELSE 1

\* EthApi::do_evm_mine that mines also after the time manager refused the
\* timestamp
do_evm_mine_regardless(opts, accepted) ==
    LET set == IF Has(opts, "timestamp")
               THEN set_next_block_timestamp(time, opts.timestamp, accepted)
               ELSE [ret |-> "Ok", time |-> time]
    IN  [ret |-> "Ok",
         node |-> mine_blocks([Node EXCEPT !.time = set.time], blocks_to_mine(opts)),
         mined_blocks |-> blocks_to_mine(opts)]

\* EthApi::do_evm_mine: sets the timestamp the options give, which may fail,
\* then mines the blocks
do_evm_mine(opts, accepted) ==
    LET set == IF Has(opts, "timestamp")
               THEN set_next_block_timestamp(time, opts.timestamp, accepted)
               ELSE [ret |-> "Ok", time |-> time]
    IN  IF set.ret # "Ok"
        THEN [ret |-> set.ret, node |-> Node, mined_blocks |-> 0]
        ELSE [ret |-> "Ok",
              node |-> mine_blocks([Node EXCEPT !.time = set.time],
                                   blocks_to_mine(opts)),
              mined_blocks |-> blocks_to_mine(opts)]

\* evm_mine
evm_mine(opts) ==
    \E accepted \in Answers(opts) :
        LET mined == do_evm_mine(opts, accepted)
        IN  /\ Mined(mined.node)
            /\ result' = [op |-> "evm_mine",
                          blocks |-> Option(opts, "blocks"),
                          timestamp |-> Option(opts, "timestamp"),
                          ret |-> IF mined.ret = "Ok" THEN "0x0" ELSE mined.ret]
            /\ UNCHANGED <<transaction_order, miner_task, calls, fork, gas_limit, clock, snapshots,
                           next_snapshot_id, impersonated, auto_impersonate,
                           next_filter_id, mining_mode, est>>

\* evm_mine_detailed: the mined blocks in ascending order; building the
\* response stops at the first transaction whose receipt carries an output
evm_mine_detailed(opts) ==
    \E accepted \in Answers(opts) :
        LET mined == do_evm_mine(opts, accepted)
            latest == Len(mined.node.blocks)
            detailed == SubSeq(mined.node.blocks,
                               latest - mined.mined_blocks + 1, latest)
            ret == IF mined.ret # "Ok" THEN mined.ret
                   ELSE IF \E i \in 1..Len(detailed) :
                              detailed[i].transactions # <<>>
                   THEN "panic"
                   ELSE "Ok"
        IN  /\ Mined(mined.node)
            /\ result' = [op |-> "evm_mine_detailed",
                          blocks |-> Option(opts, "blocks"),
                          timestamp |-> Option(opts, "timestamp"),
                          ret |-> ret,
                          detailed |-> IF ret = "Ok" THEN detailed ELSE <<>>]
            /\ UNCHANGED <<transaction_order, miner_task, calls, fork, gas_limit, clock, snapshots,
                           next_snapshot_id, impersonated, auto_impersonate,
                           next_filter_id, mining_mode, est>>

\* the handler sleeps
sleep(node, secs) == [node EXCEPT !.clock = @ + secs]

\* the loop of anvil_mine: a block, then the interval if one is given
RECURSIVE mine_at_interval(_, _, _)
mine_at_interval(node, n, interval) ==
    IF n = 0 THEN node
    ELSE mine_at_interval(
             IF interval = <<>> THEN mine_one(node)
             ELSE sleep(mine_one(node), interval[1]),
             n - 1, interval)

\* what the seconds a handler slept leave behind
Slept(node) ==
    /\ clock' = node.clock
    /\ mining_mode' = IF mining_mode.kind = "FixedBlockTime"
                      THEN [mining_mode EXCEPT !.elapsed = @ + (node.clock - clock)]
                      ELSE mining_mode

\* anvil_mine that mines one block when asked for none
anvil_mine_at_least_one(num_blocks, interval) ==
    LET n == IF num_blocks = <<>> \/ num_blocks = <<0>> THEN 1 ELSE num_blocks[1]
        mined == mine_at_interval(Node, n, interval)
    IN  /\ Mined(mined)
        /\ Slept(mined)
        /\ result' = [op |-> "anvil_mine", num_blocks |-> num_blocks,
                      interval |-> interval, ret |-> "Ok"]
        /\ UNCHANGED <<transaction_order, miner_task, calls, fork, gas_limit, snapshots,
                       next_snapshot_id, impersonated, auto_impersonate,
                       next_filter_id, est>>

\* anvil_mine: num_blocks blocks, one when left out and none when 0, with
\* `interval` seconds of sleep after each
anvil_mine(num_blocks, interval) ==
    LET n == IF num_blocks = <<>> THEN 1 ELSE num_blocks[1]
        mined == mine_at_interval(Node, n, interval)
    IN  /\ Mined(mined)
        /\ Slept(mined)
        /\ result' = [op |-> "anvil_mine", num_blocks |-> num_blocks,
                      interval |-> interval, ret |-> "Ok"]
        /\ UNCHANGED <<transaction_order, miner_task, calls, fork, gas_limit, snapshots,
                       next_snapshot_id, impersonated, auto_impersonate,
                       next_filter_id, est>>

(***************************************************************************)
(* Cheat handlers (api.rs, with the backend's setters and the cheat        *)
(* controller from the specification, 4.1 and 4.9).                        *)
(***************************************************************************)
Cheated(op) ==
    /\ result' = [op |-> op, ret |-> "Ok"]
    /\ UNCHANGED <<pool, transaction_order, miner_task, calls, fork, db, blocks, gas_limit, time,
                   clock, snapshots, next_snapshot_id, filters,
                   next_filter_id, mining_mode, est>>

\* anvil_impersonateAccount
anvil_impersonate_account(address) ==
    /\ impersonated' = impersonated \cup {address}
    /\ auto_impersonate' = auto_impersonate
    /\ Cheated("anvil_impersonateAccount")

\* anvil_stopImpersonatingAccount
anvil_stop_impersonating_account(address) ==
    /\ impersonated' = impersonated \ {address}
    /\ auto_impersonate' = auto_impersonate
    /\ Cheated("anvil_stopImpersonatingAccount")

\* anvil_autoImpersonateAccount
anvil_auto_impersonate_account(enabled) ==
    /\ auto_impersonate' = enabled
    /\ impersonated' = impersonated
    /\ Cheated("anvil_autoImpersonateAccount")

DbSet(op, ret) ==
    /\ result' = [op |-> op, ret |-> ret]
    /\ UNCHANGED <<pool, transaction_order, miner_task, calls, fork, blocks, gas_limit, time, clock,
                   snapshots, next_snapshot_id, impersonated,
                   auto_impersonate, filters, next_filter_id, mining_mode,
                   est>>

\* anvil_setBalance
anvil_set_balance(address, balance) ==
    /\ db' = [db EXCEPT ![address].balance = balance]
    /\ DbSet("anvil_setBalance", "Ok")

\* anvil_setCode
anvil_set_code(address, code) ==
    /\ db' = [db EXCEPT ![address].code = code]
    /\ DbSet("anvil_setCode", "Ok")

\* anvil_setNonce
anvil_set_nonce(address, nonce) ==
    /\ db' = [db EXCEPT ![address].nonce = nonce]
    /\ DbSet("anvil_setNonce", "Ok")

\* anvil_setStorageAt
anvil_set_storage_at(address, slot, val) ==
    /\ db' = [db EXCEPT ![address].storage[slot] = val]
    /\ DbSet("anvil_setStorageAt", TRUE)

(***************************************************************************)
(* Time and block environment handlers (api.rs, with the time controller   *)
(* from the specification).                                                *)
(***************************************************************************)
TimeSet(op, ret) ==
    /\ result' = [op |-> op, ret |-> ret]
    /\ UNCHANGED <<pool, transaction_order, miner_task, calls, fork, db, blocks, gas_limit, clock,
                   snapshots, next_snapshot_id, impersonated,
                   auto_impersonate, filters, next_filter_id, mining_mode,
                   est>>

\* evm_increaseTime: moves the offset and returns it
evm_increase_time(seconds) ==
    /\ time' = [time EXCEPT !.offset = @ + seconds]
    /\ TimeSet("evm_increaseTime", time.offset + seconds)

\* evm_setNextBlockTimestamp
evm_set_next_block_timestamp(seconds) ==
    \E accepted \in BOOLEAN :
        LET set == set_next_block_timestamp(time, seconds, accepted)
        IN  /\ time' = set.time
            /\ TimeSet("evm_setNextBlockTimestamp", set.ret)

\* evm_setTime: resets the controller to the timestamp and returns the
\* distance from the current time, from milliseconds to seconds
evm_set_time(timestamp) ==
    LET now == clock + time.offset
        offset == saturating_sub(timestamp, now)
    IN  /\ time' = [time EXCEPT !.offset = timestamp - clock,
                               !.next_timestamp = <<>>]
        /\ TimeSet("evm_setTime", offset \div 1000)

\* anvil_setBlockTimestampInterval
evm_set_block_timestamp_interval(seconds) ==
    /\ time' = [time EXCEPT !.interval = <<seconds>>]
    /\ TimeSet("anvil_setBlockTimestampInterval", "Ok")

\* anvil_removeBlockTimestampInterval: tells whether an interval was set
evm_remove_block_timestamp_interval ==
    /\ time' = [time EXCEPT !.interval = <<>>]
    /\ TimeSet("anvil_removeBlockTimestampInterval", time.interval # <<>>)

\* evm_setBlockGasLimit
evm_set_block_gas_limit(limit) ==
    /\ gas_limit' = limit
    /\ result' = [op |-> "evm_setBlockGasLimit", ret |-> TRUE]
    /\ UNCHANGED <<pool, transaction_order, miner_task, calls, fork, db, blocks, time, clock,
                   snapshots, next_snapshot_id, impersonated,
                   auto_impersonate, filters, next_filter_id, mining_mode,
                   est>>

(***************************************************************************)
(* Snapshots (api.rs, with the backend's snapshot manager from the         *)
(* specification, 3 and 4.8).                                              *)
(***************************************************************************)
\* Backend::create_snapshot: the next id, with the world state, the time
\* controller and the pool of that moment
create_snapshot ==
    [id |-> next_snapshot_id,
     snapshots |-> (next_snapshot_id :> [state |-> db, time |-> time,
                                         pool |-> pool]) @@ snapshots]

\* Backend::revert_snapshot: a snapshot that exists is consumed together with
\* the later ones, and the backend goes back to what it captured
revert_snapshot(id) ==
    IF id \in DOMAIN snapshots
    THEN [ret |-> TRUE, db |-> snapshots[id].state, time |-> snapshots[id].time,
          snapshots |-> [j \in {k \in DOMAIN snapshots : k < id} |-> snapshots[j]]]
    ELSE [ret |-> FALSE, db |-> db, time |-> time, snapshots |-> snapshots]

\* evm_snapshot
evm_snapshot ==
    /\ snapshots' = create_snapshot.snapshots
    /\ next_snapshot_id' = next_snapshot_id + 1
    /\ result' = [op |-> "evm_snapshot", ret |-> create_snapshot.id]
    /\ UNCHANGED <<pool, transaction_order, miner_task, calls, fork, db, blocks, gas_limit, time,
                   clock, impersonated, auto_impersonate, filters,
                   next_filter_id, mining_mode, est>>

\* evm_revert with the backend's answer dropped: it always reports success
evm_revert_always_true(id) ==
    LET reverted == revert_snapshot(id)
    IN  /\ db' = reverted.db
        /\ time' = reverted.time
        /\ snapshots' = reverted.snapshots
        /\ result' = [op |-> "evm_revert", id |-> id, ret |-> TRUE]
        /\ UNCHANGED <<pool, transaction_order, miner_task, calls, fork, blocks, gas_limit, clock,
                       next_snapshot_id, impersonated, auto_impersonate,
                       filters, next_filter_id, mining_mode, est>>

\* evm_revert: what the backend reverts and answers; the pool of the EthApi
\* is not handed to the backend
evm_revert(id) ==
    LET reverted == revert_snapshot(id)
    IN  /\ db' = reverted.db
        /\ time' = reverted.time
        /\ snapshots' = reverted.snapshots
        /\ result' = [op |-> "evm_revert", id |-> id, ret |-> reverted.ret]
        /\ UNCHANGED <<pool, transaction_order, miner_task, calls, fork, blocks, gas_limit, clock,
                       next_snapshot_id, impersonated, auto_impersonate,
                       filters, next_filter_id, mining_mode, est>>

(***************************************************************************)
(* Filters (api.rs, with the filter registry from the specification, 3 and *)
(* 4.7).                                                                   *)
(***************************************************************************)
\* EthFilter::Blocks over the new-block notifications, from the current head
BlocksFilter == [kind |-> "Blocks", queue |-> <<>>, cursor |-> Len(blocks)]

\* EthFilter::PendingTransactions over the pool's ready transactions
PendingTransactionsFilter ==
    [kind |-> "PendingTransactions", queue |-> <<>>, cursor |-> 0]

\* EthFilter::Logs over the new-block notifications; no block range, so
\* nothing is prefetched
LogsFilter == [kind |-> "Logs", queue |-> <<>>, cursor |-> 0]

\* Filters::add_filter
add_filter(filter) ==
    /\ filters' = (next_filter_id :> filter) @@ filters
    /\ next_filter_id' = next_filter_id + 1

FilterUnchanged ==
    UNCHANGED <<pool, transaction_order, miner_task, calls, fork, db, blocks, gas_limit, time, clock,
                snapshots, next_snapshot_id, impersonated, auto_impersonate,
                mining_mode, est>>

\* eth_newFilter
new_filter ==
    /\ add_filter(LogsFilter)
    /\ result' = [op |-> "eth_newFilter", ret |-> next_filter_id]
    /\ FilterUnchanged

\* eth_newBlockFilter that installs the wrong kind of filter
new_block_filter_pending ==
    /\ add_filter(PendingTransactionsFilter)
    /\ result' = [op |-> "eth_newBlockFilter", ret |-> next_filter_id]
    /\ FilterUnchanged

\* eth_newBlockFilter
new_block_filter ==
    /\ add_filter(BlocksFilter)
    /\ result' = [op |-> "eth_newBlockFilter", ret |-> next_filter_id]
    /\ FilterUnchanged

\* eth_newPendingTransactionFilter
new_pending_transaction_filter ==
    /\ add_filter(PendingTransactionsFilter)
    /\ result' = [op |-> "eth_newPendingTransactionFilter", ret |-> next_filter_id]
    /\ FilterUnchanged

\* Filters::get_filter_changes: swaps out what the filter accumulated; an
\* unknown id yields nothing
filter_changes(id) ==
    IF id \in DOMAIN filters
    THEN [ret |-> filters[id].queue,
          filters |-> [filters EXCEPT ![id].queue = <<>>,
                                      ![id].cursor = @ + Len(filters[id].queue)]]
    ELSE [ret |-> <<>>, filters |-> filters]

\* eth_getFilterChanges
get_filter_changes(id) ==
    /\ filters' = filter_changes(id).filters
    /\ result' = [op |-> "eth_getFilterChanges", id |-> id,
                  ret |-> filter_changes(id).ret]
    /\ UNCHANGED next_filter_id
    /\ FilterUnchanged

\* Filters::get_log_filter: the parameters of a logs filter with the id
get_log_filter(id) ==
    IF id \in DOMAIN filters /\ filters[id].kind = "Logs" THEN <<id>> ELSE <<>>

\* Backend::logs: the logs the chain holds that match the filter; every log
\* of the model matches
RECURSIVE chain_logs(_)
chain_logs(chain) ==
    IF chain = <<>> THEN <<>>
    ELSE chain_logs(SubSeq(chain, 1, Len(chain) - 1))
             \o block_logs(chain[Len(chain)])

logs(filter) == chain_logs(blocks)

\* eth_getFilterLogs
get_filter_logs(id) ==
    /\ result' = [op |-> "eth_getFilterLogs", id |-> id,
                  ret |-> IF get_log_filter(id) # <<>>
                          THEN logs(get_log_filter(id)[1])
                          ELSE <<>>]
    /\ UNCHANGED <<filters, next_filter_id>>
    /\ FilterUnchanged

\* Filters::uninstall_filter: removes the filter and returns it, if installed
remove_filter(id) ==
    [removed |-> IF id \in DOMAIN filters THEN <<filters[id]>> ELSE <<>>,
     filters |-> [j \in DOMAIN filters \ {id} |-> filters[j]]]

\* eth_uninstallFilter with the test turned around
uninstall_filter_is_none(id) ==
    /\ filters' = remove_filter(id).filters
    /\ result' = [op |-> "eth_uninstallFilter", id |-> id,
                  ret |-> remove_filter(id).removed = <<>>]
    /\ UNCHANGED next_filter_id
    /\ FilterUnchanged

\* eth_uninstallFilter
uninstall_filter(id) ==
    /\ filters' = remove_filter(id).filters
    /\ result' = [op |-> "eth_uninstallFilter", id |-> id,
                  ret |-> remove_filter(id).removed # <<>>]
    /\ UNCHANGED next_filter_id
    /\ FilterUnchanged

\* Filters: a filter nobody polled for the keep-alive time is evicted
evict_filter(id) ==
    /\ id \in DOMAIN filters
    /\ filters' = remove_filter(id).filters
    /\ UNCHANGED <<next_filter_id, result>>
    /\ FilterUnchanged

(***************************************************************************)
(* The miner (api.rs for the handlers, the specification, 4.6, for the     *)
(* miner's own steps).                                                     *)
(***************************************************************************)
\* MiningMode::None
ModeNone == [kind |-> "None", signalled |-> FALSE, secs |-> 0, elapsed |-> 0]

\* MiningMode::instant over a fresh ready-listener of the pool
ModeAuto == [kind |-> "Auto", signalled |-> FALSE, secs |-> 0, elapsed |-> 0]

\* MiningMode::FixedBlockTime(FixedBlockTimeMiner::new(block_time))
ModeFixedBlockTime(secs) ==
    [kind |-> "FixedBlockTime", signalled |-> FALSE, secs |-> secs, elapsed |-> 0]

\* Miner::is_auto_mine
is_auto_mine == mining_mode.kind = "Auto"

\* whether the miner runs on the block time
is_fixed_block_time == mining_mode.kind = "FixedBlockTime"

MinerUnchanged ==
    UNCHANGED <<pool, transaction_order, miner_task, calls, fork, db, blocks, gas_limit, time, clock,
                snapshots, next_snapshot_id, impersonated, auto_impersonate,
                filters, next_filter_id, est>>

\* anvil_getAutomine
anvil_get_auto_mine ==
    /\ result' = [op |-> "anvil_getAutomine", ret |-> is_auto_mine]
    /\ UNCHANGED mining_mode
    /\ MinerUnchanged

\* evm_setAutomine that forgets to leave the instant mode
anvil_set_auto_mine_keeps_mode(enable_automine) ==
    /\ mining_mode' = IF is_auto_mine
                      THEN mining_mode
                      ELSE IF enable_automine THEN ModeAuto ELSE mining_mode
    /\ result' = [op |-> "evm_setAutomine", arg |-> enable_automine, ret |-> "Ok"]
    /\ MinerUnchanged

\* evm_setAutomine that starts a new instant miner each time it is enabled
anvil_set_auto_mine_anew(enable_automine) ==
    /\ mining_mode' = IF enable_automine THEN ModeAuto
                      ELSE IF is_auto_mine THEN ModeNone ELSE mining_mode
    /\ result' = [op |-> "evm_setAutomine", arg |-> enable_automine, ret |-> "Ok"]
    /\ MinerUnchanged

\* evm_setAutomine
anvil_set_auto_mine(enable_automine) ==
    /\ mining_mode' = IF is_auto_mine
                      THEN IF enable_automine THEN mining_mode ELSE ModeNone
                      ELSE IF enable_automine THEN ModeAuto ELSE mining_mode
    /\ result' = [op |-> "evm_setAutomine", arg |-> enable_automine, ret |-> "Ok"]
    /\ MinerUnchanged

\* evm_setIntervalMining that starts the miner with a block time one second
\* longer than asked for
anvil_set_interval_mining_late(secs) ==
    /\ mining_mode' = IF secs = 0 THEN ModeNone ELSE ModeFixedBlockTime(secs + 1)
    /\ result' = [op |-> "evm_setIntervalMining", arg |-> secs, ret |-> "Ok"]
    /\ MinerUnchanged

\* evm_setIntervalMining
anvil_set_interval_mining(secs) ==
    /\ mining_mode' = IF secs = 0 THEN ModeNone ELSE ModeFixedBlockTime(secs)
    /\ result' = [op |-> "evm_setIntervalMining", arg |-> secs, ret |-> "Ok"]
    /\ MinerUnchanged

\* the miner's task in the instant mode: a block once the pool signalled
miner_instant ==
    /\ mining_mode.kind = "Auto"
    /\ mining_mode.signalled
    /\ Mined(mine_one(Node))
    /\ mining_mode' = [mining_mode EXCEPT !.signalled = FALSE]
    /\ UNCHANGED <<transaction_order, miner_task, calls, fork, gas_limit, clock, snapshots,
                   next_snapshot_id, impersonated, auto_impersonate,
                   next_filter_id, est, result>>

\* the miner's task in the interval mode: a block when the block time is up
miner_fixed_block_time ==
    /\ mining_mode.kind = "FixedBlockTime"
    /\ mining_mode.elapsed >= mining_mode.secs
    /\ Mined(mine_one(Node))
    /\ mining_mode' = [mining_mode EXCEPT !.elapsed = 0]
    /\ UNCHANGED <<transaction_order, miner_task, calls, fork, gas_limit, clock, snapshots,
                   next_snapshot_id, impersonated, auto_impersonate,
                   next_filter_id, est, result>>

\* a second of real time passes; an interval miner that is due goes first
tick ==
    /\ ~(mining_mode.kind = "FixedBlockTime"
         /\ mining_mode.elapsed >= mining_mode.secs)
    /\ clock' = clock + 1
    /\ mining_mode' = IF mining_mode.kind = "FixedBlockTime"
                      THEN [mining_mode EXCEPT !.elapsed = @ + 1]
                      ELSE mining_mode
    /\ UNCHANGED <<pool, transaction_order, miner_task, calls, fork, db, blocks, gas_limit, time,
                   snapshots, next_snapshot_id, impersonated,
                   auto_impersonate, filters, next_filter_id, est, result>>

(***************************************************************************)
(* Gas estimation (api.rs, with the executor from the specification, 4.3). *)
(***************************************************************************)
\* what running the code of the target costs, and whether it reverts
code_gas(code) == IF code = "0x5b00" THEN 1 ELSE 0
code_reverts(code) == code = "0xfd"

\* the gas a request needs before any code runs
intrinsic_gas(request) ==
    (IF Has(request, "to") THEN MIN_TRANSACTION_GAS ELSE MIN_CREATE_GAS)
        + DataGas * (IF Has(request, "data") THEN request.data ELSE 0)

\* the gas at and above which the execution of the request succeeds
gas_needed(request, state) ==
    intrinsic_gas(request)
        + (IF Has(request, "to") THEN code_gas(state[request.to].code) ELSE 0)

\* Backend::call_with_state: the outcome of executing the request with the
\* gas it carries, nothing committed; the caller has to hold the value and
\* the price of all the gas
call_with_state(state, request, cap) ==
    IF request.gas > cap
    THEN [err |-> "GasTooHigh"]
    ELSE IF /\ Has(request, "from") /\ Has(request, "gas_price")
            /\ state[request.from].balance
                   < request.gas * request.gas_price
                         + (IF Has(request, "value") THEN request.value ELSE 0)
    THEN [err |-> "InsufficientFunds"]
    ELSE IF request.gas < gas_needed(request, state)
    THEN [err |-> "", exit |-> "OutOfEnergy", gas |-> request.gas]
    ELSE IF Has(request, "to") /\ code_reverts(state[request.to].code)
    THEN [err |-> "", exit |-> "Revert", gas |-> gas_needed(request, state)]
    ELSE [err |-> "", exit |-> "Ok", gas |-> gas_needed(request, state)]

\* the request with its gas set
with_gas(request, gas) ==
    [f \in DOMAIN request \cup {"gas"} |-> IF f = "gas" THEN gas ELSE request[f]]

\* determine_base_gas_by_kind
determine_base_gas_by_kind(request) ==
    IF Has(request, "to") THEN MIN_TRANSACTION_GAS ELSE MIN_CREATE_GAS

\* the error map_out_of_gas_err makes of the second run
out_of_gas_err(res) ==
    IF res.err # "" THEN res.err
    ELSE IF res.exit = "Ok" THEN "BasicOutOfGas"
    ELSE IF res.exit = "Revert" THEN "Revert"
    ELSE "EvmError"

\* map_out_of_gas_err: the request run again with the backend's gas limit
map_out_of_gas_err(request, state, limit) ==
    out_of_gas_err(call_with_state(state, with_gas(request, gas_limit), gas_limit))

\* how an execution ended: the error, or the exit reason
ended(ethres) == IF ethres.err # "" THEN ethres.err ELSE ethres.exit

\* the searches EthApi::do_estimate_gas_with_state may be in; `exit` is how
\* the last execution of the call ended, `observed` the gas limits at which
\* an execution of the call succeeded
Idle ==
    [pc |-> "idle", request |-> <<>>, lowest |-> 0, highest |-> 0, mid |-> 0,
     exit |-> "", observed |-> {}]
Stopped(request) ==
    [pc |-> "done", request |-> request, lowest |-> 0, highest |-> 0, mid |-> 0,
     exit |-> "", observed |-> {}]

\* whether the request carries call data
likely_transfer(request) == ~Has(request, "data") \/ request.data = 0

\* the highest gas limit the sender can afford, and the gas limit of the
\* first execution
first_gas_limit(request, state) ==
    LET gas_price == IF Has(request, "gas_price") THEN request.gas_price ELSE 0
        requested == IF Has(request, "gas") THEN request.gas ELSE gas_limit
        funded == Has(request, "from") /\ gas_price > 0
        available_funds == state[request.from].balance
        value == IF Has(request, "value") THEN request.value ELSE 0
        allowance == (available_funds - value) \div gas_price
        highest_gas_limit == IF funded /\ requested > allowance
                             THEN allowance ELSE requested
    IN  [highest |-> highest_gas_limit,
         limit |-> Min(requested, highest_gas_limit),
         poor |-> funded /\ value > available_funds]

\* EthApi::do_estimate_gas_with_state from the balance check to the binary
\* search, given how the first execution and the second run of
\* map_out_of_gas_err end
estimate_executed(request, state, ethres, again) ==
    LET first == first_gas_limit(request, state)
        explicit == Has(request, "gas") \/ Has(request, "gas_price")
        lowest_gas_limit == determine_base_gas_by_kind(request)
        stopped == [Stopped(request) EXCEPT !.exit = ended(ethres)]
    IN  IF first.poor
        THEN [err |-> "InsufficientFunds", ret |-> 0, est |-> Stopped(request)]
        ELSE IF ethres.err = "GasTooHigh"
        THEN [err |-> IF explicit THEN out_of_gas_err(again) ELSE "GasTooHigh",
              ret |-> 0, est |-> stopped]
        ELSE IF ethres.err # ""
        THEN [err |-> ethres.err, ret |-> 0, est |-> stopped]
        ELSE IF ethres.exit \in {"OutOfEnergy", "OutOfFund"}
        THEN [err |-> "BasicOutOfGas", ret |-> 0, est |-> stopped]
        ELSE IF ethres.exit = "Revert"
        THEN [err |-> IF explicit THEN out_of_gas_err(again) ELSE "Revert",
              ret |-> 0, est |-> stopped]
        ELSE IF ethres.exit # "Ok"
        THEN [err |-> "EvmError", ret |-> 0, est |-> stopped]
        ELSE [err |-> "", ret |-> 0,
              est |-> [pc |-> "search", request |-> request,
                       lowest |-> lowest_gas_limit,
                       highest |-> first.highest,
                       mid |-> Min(ethres.gas * 3,
                                   (first.highest + lowest_gas_limit) \div 2),
                       exit |-> "Ok",
                       observed |-> {first.limit}]]

\* an estimate that looks at the sender's funds before anything else
estimate_begin_funds_first(request, state, ethres, again) ==
    IF first_gas_limit(request, state).poor
    THEN [err |-> "InsufficientFunds", ret |-> 0, est |-> Stopped(request)]
    ELSE IF likely_transfer(request) /\ Has(request, "to")
              /\ state[request.to].code = ""
    THEN [err |-> "", ret |-> MIN_TRANSACTION_GAS, est |-> Stopped(request)]
    ELSE estimate_executed(request, state, ethres, again)

\* EthApi::do_estimate_gas_with_state up to the binary search, given how
\* the first execution and the second run of map_out_of_gas_err end: the
\* response when there is one already, the search otherwise
estimate_begin_given(request, state, ethres, again) ==
    IF likely_transfer(request) /\ Has(request, "to")
          /\ state[request.to].code = ""
    THEN [err |-> "", ret |-> MIN_TRANSACTION_GAS, est |-> Stopped(request)]
    ELSE estimate_executed(request, state, ethres, again)

\* EthApi::do_estimate_gas_with_state up to the binary search
estimate_begin(request, state) ==
    estimate_begin_given(
        request, state,
        call_with_state(state,
                        with_gas(request, first_gas_limit(request, state).limit),
                        gas_limit),
        call_with_state(state, with_gas(request, gas_limit), gas_limit))

EstimateUnchanged ==
    UNCHANGED <<pool, transaction_order, miner_task, calls, fork, db, blocks, gas_limit, time, clock,
                snapshots, next_snapshot_id, impersonated, auto_impersonate,
                filters, next_filter_id, mining_mode>>

\* eth_estimateGas arrives, the executions ending as given
estimate_gas_given(request, ethres, again) ==
    /\ est.pc # "search"
    /\ LET begun == estimate_begin_given(request, db, ethres, again)
       IN  /\ est' = begun.est
           /\ result' = IF begun.est.pc = "search"
                         THEN result
                         ELSE [op |-> "eth_estimateGas", err |-> begun.err,
                               ret |-> begun.ret]
    /\ EstimateUnchanged

\* eth_estimateGas: the call arrives
estimate_gas(request) ==
    /\ est.pc # "search"
    /\ LET begun == estimate_begin(request, db)
       IN  /\ est' = begun.est
           /\ result' = IF begun.est.pc = "search"
                         THEN result
                         ELSE [op |-> "eth_estimateGas", err |-> begun.err,
                               ret |-> begun.ret]
    /\ EstimateUnchanged

\* one turn of the binary search that keeps its midpoint
estimate_search_stale(ethres) ==
    /\ est.pc = "search"
    /\ est.highest >= est.lowest
    /\ est.highest - est.lowest > 1
    /\ est' = IF ended(ethres) = "Ok"
              THEN [est EXCEPT !.highest = est.mid, !.exit = "Ok",
                               !.observed = @ \cup {est.mid}]
              ELSE [est EXCEPT !.lowest = est.mid, !.exit = ended(ethres)]
    /\ UNCHANGED result
    /\ EstimateUnchanged

\* one turn of the binary search, the execution with the midpoint ending as
\* given: a success lowers the highest limit, GasTooHigh and a failure for
\* lack of gas raise the lowest one, anything else is the response
estimate_search_given(ethres) ==
    /\ est.pc = "search"
    /\ est.highest >= est.lowest
    /\ est.highest - est.lowest > 1
    /\ LET narrowed ==
               IF ended(ethres) = "Ok"
               THEN [est EXCEPT !.highest = est.mid, !.exit = "Ok",
                                !.observed = @ \cup {est.mid}]
               ELSE [est EXCEPT !.lowest = est.mid, !.exit = ended(ethres)]
       IN  IF ethres.err \notin {"", "GasTooHigh"}
           THEN /\ est' = [est EXCEPT !.pc = "done", !.exit = ended(ethres)]
                /\ result' = [op |-> "eth_estimateGas", err |-> ethres.err,
                              ret |-> 0]
           ELSE IF ethres.err = ""
                   /\ ethres.exit \notin {"Ok", "Revert", "OutOfEnergy", "OutOfFund"}
           THEN /\ est' = [est EXCEPT !.pc = "done", !.exit = ended(ethres)]
                /\ result' = [op |-> "eth_estimateGas", err |-> "EvmError",
                              ret |-> 0]
           ELSE /\ est' = [narrowed EXCEPT
                              !.mid = (narrowed.highest + narrowed.lowest) \div 2]
                /\ UNCHANGED result
    /\ EstimateUnchanged

\* one turn of the binary search
estimate_search ==
    estimate_search_given(
        call_with_state(db, with_gas(est.request, est.mid), gas_limit))

\* the binary search ends: the highest gas limit is the estimate; a highest
\* limit below the lowest one overflows the subtraction
estimate_return ==
    /\ est.pc = "search"
    /\ \/ est.highest < est.lowest
       \/ est.highest - est.lowest <= 1
    /\ est' = [est EXCEPT !.pc = "done"]
    /\ result' = [op |-> "eth_estimateGas",
                  err |-> IF est.highest < est.lowest THEN "panic" ELSE "",
                  ret |-> IF est.highest < est.lowest THEN 0 ELSE est.highest]
    /\ EstimateUnchanged

(***************************************************************************)
(* Fork mode: the state queries of api.rs that hand a request to the fork  *)
(* client, with the fork client and its cache from the specification, 4.2  *)
(* and 5.                                                                  *)
(***************************************************************************)
\* a reader that holds no response yet
NoResponse == [op |-> "none"]

\* a node that is no fork: get_fork() is None
NoFork ==
    [pin |-> <<>>, cache |-> {}, inflight |-> {}, calls |-> <<>>,
     waiting |-> [r \in Readers |-> <<>>],
     got |-> [r \in Readers |-> NoResponse]]

\* a fork pinned at block p, nothing fetched yet
ForkAt(p) == [NoFork EXCEPT !.pin = <<p>>]

\* EthApi::get_fork
get_fork == fork.pin # <<>>

\* ClientFork::predates_fork and ClientFork::predates_fork_inclusive
predates_fork(n) == n < fork.pin[1]
predates_fork_inclusive(n) == n <= fork.pin[1]

\* Backend::best_number: a fork starts at its pin
best_number == (IF get_fork THEN fork.pin[1] ELSE 0) + Len(blocks)

\* the block ids of a request: none, latest, pending, or a number
BlockIds(numbers) ==
    [kind : {"None", "Latest", "Pending"}, number : {0}]
        \cup [kind : {"Number"}, number : numbers]

\* Backend::ensure_block_number: the number asked for, the best number for
\* the other block ids
ensure_block_number(block_number) ==
    IF block_number.kind = "Number" THEN block_number.number ELSE best_number

\* EthApi::block_request: the pending block with the ready transactions, or
\* the number of the block asked for
block_request(block_number) ==
    IF block_number.kind = "Pending"
    THEN [kind |-> "Pending", txs |-> ready_transactions(pool, db),
          number |-> best_number + 1]
    ELSE [kind |-> "Number", txs |-> <<>>,
          number |-> ensure_block_number(block_number)]

\* what the remote endpoint answers; its history does not change
RemoteValue(key) == key[4] + 1

\* the response a reader holds: what was asked, at which block, who
\* answered and what
Response(op, key, pending, served, value) ==
    [op |-> op, key |-> key, pending |-> pending, served |-> served,
     value |-> value]

QueryUnchanged ==
    UNCHANGED <<pool, transaction_order, miner_task, calls, db, blocks, gas_limit, time, clock,
                snapshots, next_snapshot_id, impersonated, auto_impersonate,
                filters, next_filter_id, mining_mode, est, result>>

\* the backend answers from the local state
Local(r, op, key, pending, value) ==
    /\ fork' = [fork EXCEPT !.got[r] = Response(op, key, pending, "local", value)]
    /\ QueryUnchanged

\* a fork client without its cache: every read goes to the remote endpoint
DelegatedUncached(r, op, key, pending) ==
    /\ fork' = [fork EXCEPT !.calls = Append(@, key),
                            !.inflight = @ \cup {key},
                            !.waiting[r] = <<op, key, pending>>,
                            !.got[r] = NoResponse]
    /\ QueryUnchanged

\* the fork client takes the read: a memoized value is returned at once; the
\* first reader of a key sends the remote call; a reader that finds the call
\* under way waits for it
Delegated(r, op, key, pending) ==
    /\ fork' =
         IF \E e \in fork.cache : e[1] = key
         THEN LET e == CHOOSE e \in fork.cache : e[1] = key
              IN  [fork EXCEPT !.got[r] = Response(op, key, pending, "remote", e[2])]
         ELSE IF key \in fork.inflight
         THEN [fork EXCEPT !.waiting[r] = <<op, key, pending>>, !.got[r] = NoResponse]
         ELSE [fork EXCEPT !.calls = Append(@, key),
                           !.inflight = @ \cup {key},
                           !.waiting[r] = <<op, key, pending>>,
                           !.got[r] = NoResponse]
    /\ QueryUnchanged

\* the remote endpoint answers a call: the value is memoized and every reader
\* that waits for the key returns with it
fork_fetched(key) ==
    /\ key \in fork.inflight
    /\ LET value == RemoteValue(key)
           waits(r) == fork.waiting[r] # <<>> /\ fork.waiting[r][2] = key
       IN  fork' =
             [fork EXCEPT
                !.cache = @ \cup {<<key, value>>},
                !.inflight = @ \ {key},
                !.waiting = [r \in Readers |-> IF waits(r) THEN <<>> ELSE @[r]],
                !.got = [r \in Readers |->
                            IF waits(r)
                            THEN Response(fork.waiting[r][1], key,
                                          fork.waiting[r][3], "remote", value)
                            ELSE @[r]]]
    /\ QueryUnchanged

\* a reader has one request under way at a time
Free(r) == fork.waiting[r] = <<>>

\* the common shape of the handlers below: a numbered block the fork
\* predates goes to the fork client, everything else to the backend
Query(r, op, address, index, block_number, predates(_), value) ==
    LET request == block_request(block_number)
        key == <<op, address, index, request.number>>
    IN  /\ Free(r)
        /\ IF request.kind = "Number" /\ get_fork /\ predates(request.number)
           THEN Delegated(r, op, key, FALSE)
           ELSE Local(r, op, key, request.kind = "Pending", value)

\* eth_getBalance
balance(r, address, block_number) ==
    Query(r, "eth_getBalance", address, 0, block_number, predates_fork,
          db[address].balance)

\* eth_getStorageAt that asks the remote endpoint each time
storage_at_uncached(r, address, index, block_number) ==
    LET request == block_request(block_number)
        key == <<"eth_getStorageAt", address, index, request.number>>
    IN  /\ Free(r)
        /\ IF request.kind = "Number" /\ get_fork /\ predates_fork(request.number)
           THEN DelegatedUncached(r, "eth_getStorageAt", key, FALSE)
           ELSE Local(r, "eth_getStorageAt", key, request.kind = "Pending",
                      db[address].storage[index])

\* eth_getStorageAt
storage_at(r, address, index, block_number) ==
    Query(r, "eth_getStorageAt", address, index, block_number, predates_fork,
          db[address].storage[index])

\* eth_getCode
get_code(r, address, block_number) ==
    Query(r, "eth_getCode", address, 0, block_number, predates_fork,
          db[address].code)

\* eth_getProof
get_proof(r, address, block_number) ==
    Query(r, "eth_getProof", address, 0, block_number, predates_fork_inclusive,
          "proof")

\* eth_call without overrides
call(r, address, block_number) ==
    Query(r, "eth_call", address, 0, block_number, predates_fork, "output")

\* EthApi::do_estimate_gas, the delegation in front of the estimation
do_estimate_gas(r, address, block_number) ==
    Query(r, "eth_estimateGas", address, 0, block_number, predates_fork,
          "estimate")

\* eth_getUncleByBlockNumberAndIndex: no uncles outside a fork
uncle_by_block_number_and_index(r, block_number, idx) ==
    LET number == ensure_block_number(block_number)
        key == <<"eth_getUncleByBlockNumberAndIndex", "", idx, number>>
    IN  /\ Free(r)
        /\ IF get_fork /\ predates_fork_inclusive(number)
           THEN Delegated(r, "eth_getUncleByBlockNumberAndIndex", key,
                          block_number.kind = "Pending")
           ELSE Local(r, "eth_getUncleByBlockNumberAndIndex", key,
                      block_number.kind = "Pending", "null")

\* EthApi::get_transaction_count, behind eth_getTransactionCount
get_transaction_count(r, address, block_number) ==
    Query(r, "eth_getTransactionCount", address, 0, block_number,
          predates_fork_inclusive,
          IF block_number.kind = "Pending"
          THEN pending_nonce(address) ELSE db[address].nonce)

\* the accounts of a fresh node
GenesisDb ==
    [a \in Address |->
        [nonce |-> 0,
         balance |-> IF a \in Range(SignerAccounts) THEN GenesisBalance ELSE 0,
         code |-> "",
         storage |-> [slot \in {0} |-> 0]]]

\* Backend::reset_fork on a node that is a fork: a fresh forked state at
\* the block asked for, or at the pin
reset_fork(forking) ==
    ForkAt(IF forking.block_number # <<>> THEN forking.block_number[1]
           ELSE fork.pin[1])

\* anvil_reset
anvil_reset(forking) ==
    /\ IF forking # <<>>
       THEN /\ fork' = reset_fork(forking[1])
            /\ db' = GenesisDb
            /\ blocks' = <<>>
            /\ result' = [op |-> "anvil_reset", forking |-> forking # <<>>,
                          ret |-> "Ok"]
       ELSE /\ UNCHANGED <<fork, db, blocks>>
            /\ result' = [op |-> "anvil_reset", forking |-> forking # <<>>,
                          ret |-> "RpcUnimplemented"]
    /\ UNCHANGED <<pool, transaction_order, miner_task, calls, gas_limit, time, clock,
                   snapshots, next_snapshot_id, impersonated, auto_impersonate,
                   filters, next_filter_id, mining_mode, est>>

(***************************************************************************)
(* Handlers side by side (api.rs): an async handler runs up to an await,   *)
(* where the handler of another caller may run, and then goes on with what *)
(* it holds in its local variables.                                        *)
(***************************************************************************)
\* what a step of a handler in progress leaves alone
CallUnchanged ==
    UNCHANGED <<transaction_order, miner_task, fork, gas_limit, clock,
                snapshots, next_snapshot_id, impersonated, auto_impersonate,
                next_filter_id, est>>

\* the caller has no handler in progress
AtRest(c) == calls[c].pc \in {"idle", "returned"}

\* EthApi::mine_one up to Backend::mine_block: the ready transactions are
\* collected from the pool
mine_one_ready(c) ==
    /\ AtRest(c)
    /\ calls' = [calls EXCEPT ![c] =
                    [NoCall EXCEPT !.op = "mine_one", !.pc = "ready",
                                   !.transactions = ready_transactions(pool, db)]]
    /\ UNCHANGED <<pool, db, blocks, time, filters, mining_mode, result>>
    /\ CallUnchanged

\* EthApi::mine_one, the next step: Backend::mine_block over the collected
\* transactions
mine_one_mine_block(c) ==
    /\ calls[c].op = "mine_one"
    /\ calls[c].pc = "ready"
    /\ LET mined == mine_block(Node, calls[c].transactions)
           outcome == mined.blocks[Len(mined.blocks)]
       IN  /\ Mined(mined)
           /\ calls' = [calls EXCEPT ![c].pc = "mined",
                                     ![c].outcome = outcome.transactions]
    /\ UNCHANGED <<mining_mode, result>>
    /\ CallUnchanged

\* EthApi::mine_one, the last step: Pool::on_mined_block; the handler returns
\* nothing and its local variables are gone
mine_one_on_mined_block(c) ==
    /\ calls[c].op = "mine_one"
    /\ calls[c].pc = "mined"
    /\ pool' = on_mined_block(pool, calls[c].outcome)
    /\ calls' = [calls EXCEPT ![c] = NoCall]
    /\ UNCHANGED <<db, blocks, time, filters, mining_mode, result>>
    /\ CallUnchanged

\* eth_sendTransaction up to the end of request_nonce: the sender and the
\* two nonces
send_transaction_request_nonce(c, request) ==
    /\ AtRest(c)
    /\ IF ~Has(request, "from") /\ SignerAccounts = <<>>
       THEN /\ calls' = [calls EXCEPT ![c] =
                            [NoCall EXCEPT !.op = "eth_sendTransaction",
                                           !.pc = "returned",
                                           !.request = request,
                                           !.ret = "NoSignerAvailable"]]
            /\ result' = [op |-> "eth_sendTransaction", from |-> "",
                          ret |-> "NoSignerAvailable"]
       ELSE LET from == IF Has(request, "from") THEN request.from
                        ELSE SignerAccounts[1]
                rn == request_nonce(request, from)
            IN  /\ calls' = [calls EXCEPT ![c] =
                                [NoCall EXCEPT !.op = "eth_sendTransaction",
                                               !.pc = "nonce",
                                               !.request = request,
                                               !.from = from,
                                               !.nonce = rn[1],
                                               !.on_chain_nonce = rn[2]]]
                /\ UNCHANGED result
    /\ UNCHANGED <<pool, db, blocks, time, filters, mining_mode>>
    /\ CallUnchanged

\* eth_sendTransaction, the next step: the transaction is built and signed
\* and Backend::validate_pool_transaction looks at it
send_transaction_validate(c) ==
    /\ calls[c].op = "eth_sendTransaction"
    /\ calls[c].pc = "nonce"
    /\ LET from == calls[c].from
           typed == build_typed_tx_request(calls[c].request, calls[c].nonce)
           signature == IF is_impersonated(from) THEN "bypass" ELSE "signed"
           probe == PoolTransaction(typed, from, signature, <<>>, <<>>)
           err == IF ~is_impersonated(from) /\ ~can_sign(from)
                  THEN "NoSignerAvailable"
                  ELSE validate_pool_transaction(probe)
       IN  IF err # "Ok"
           THEN /\ calls' = [calls EXCEPT ![c].pc = "returned", ![c].ret = err]
                /\ result' = [op |-> "eth_sendTransaction", from |-> from,
                              ret |-> err]
           ELSE /\ calls' = [calls EXCEPT ![c].pc = "validated",
                                          ![c].signature = signature]
                /\ UNCHANGED result
    /\ UNCHANGED <<pool, db, blocks, time, filters, mining_mode>>
    /\ CallUnchanged

\* eth_sendTransaction, the last step: the markers are computed from the two
\* nonces and the transaction goes to the pool
send_transaction_add(c) ==
    /\ calls[c].op = "eth_sendTransaction"
    /\ calls[c].pc = "validated"
    /\ LET from == calls[c].from
           nonce == calls[c].nonce
           typed == build_typed_tx_request(calls[c].request, nonce)
           requires == required_marker(nonce, calls[c].on_chain_nonce, from)
           provides == <<to_marker(nonce, from)>>
           out == add_pending_transaction(typed, from, calls[c].signature,
                                          requires, provides)
       IN  /\ Delivered("eth_sendTransaction", from, out)
           /\ calls' = [calls EXCEPT ![c].pc = "returned", ![c].ret = out.ret]

\* evm_mine_detailed up to the end of do_evm_mine: the blocks are mined
evm_mine_detailed_mine(c, opts) ==
    /\ AtRest(c)
    /\ \E accepted \in Answers(opts) :
        LET mined == do_evm_mine(opts, accepted)
            latest == Len(mined.node.blocks)
        IN  /\ Mined(mined.node)
            /\ IF mined.ret # "Ok"
               THEN /\ calls' = [calls EXCEPT ![c] =
                                    [NoCall EXCEPT !.op = "evm_mine_detailed",
                                                   !.pc = "returned",
                                                   !.ret = mined.ret]]
                    /\ result' = [op |-> "evm_mine_detailed", ret |-> mined.ret,
                                  detailed |-> <<>>, produced |-> <<>>]
               ELSE /\ calls' = [calls EXCEPT ![c] =
                                    [NoCall EXCEPT !.op = "evm_mine_detailed",
                                                   !.pc = "mined",
                                                   !.mined_blocks = mined.mined_blocks,
                                                   !.outcome =
                                                       SubSeq(mined.node.blocks,
                                                              latest - mined.mined_blocks + 1,
                                                              latest)]]
                    /\ UNCHANGED result
    /\ UNCHANGED mining_mode
    /\ CallUnchanged

\* evm_mine_detailed, the last step: the best block number is read and the
\* blocks are counted back from it; `outcome` keeps the blocks the call
\* mined
evm_mine_detailed_collect(c) ==
    /\ calls[c].op = "evm_mine_detailed"
    /\ calls[c].pc = "mined"
    /\ LET latest == best_number
           detailed == SubSeq(blocks, latest - calls[c].mined_blocks + 1, latest)
           ret == IF \E i \in 1..Len(detailed) : detailed[i].transactions # <<>>
                  THEN "panic"
                  ELSE "Ok"
       IN  /\ calls' = [calls EXCEPT ![c].pc = "returned", ![c].ret = ret]
           /\ result' = [op |-> "evm_mine_detailed", ret |-> ret,
                         detailed |-> IF ret = "Ok" THEN detailed ELSE <<>>,
                         produced |-> calls[c].outcome]
    /\ UNCHANGED <<pool, db, blocks, time, filters, mining_mode>>
    /\ CallUnchanged

\* Pool::get_transaction
get_transaction(hash) == {i \in 1..Len(pool) : Pending(pool[i]) = hash}

\* Backend::transaction_receipt: the number of the block that holds the
\* transaction
backend_transaction_receipt(hash) ==
    LET holding == {n \in 1..Len(blocks) : hash \in Range(blocks[n].transactions)}
    IN  IF holding = {} THEN <<>>
        ELSE <<CHOOSE n \in holding : \A m \in holding : n <= m>>

\* eth_getTransactionReceipt: none while the pool holds the transaction
transaction_receipt(hash) ==
    /\ result' = [op |-> "eth_getTransactionReceipt", hash |-> hash,
                  ret |-> IF get_transaction(hash) # {} THEN <<>>
                          ELSE backend_transaction_receipt(hash)]
    /\ UNCHANGED <<pool, db, blocks, time, filters, mining_mode, calls>>
    /\ CallUnchanged

(***************************************************************************)
(* Inputs and initial states.                                              *)
(***************************************************************************)
\* the transaction requests of eth_sendTransaction and
\* eth_sendUnsignedTransaction: plain transfers; `from` and `nonce` may be
\* left out
RequestsOf(senders, nonces, prices) ==
    [from : senders, nonce : nonces, gas_price : prices,
     gas : {MIN_TRANSACTION_GAS}, value : {0}]
    \cup [from : senders, gas_price : prices,
          gas : {MIN_TRANSACTION_GAS}, value : {0}]
    \cup [nonce : nonces, gas_price : prices,
          gas : {MIN_TRANSACTION_GAS}, value : {0}]
    \cup [gas_price : prices, gas : {MIN_TRANSACTION_GAS}, value : {0}]

\* the byte strings of eth_sendRawTransaction
RawTransactionsOf(senders, nonces, prices) ==
    [bytes : {"empty", "undecodable"}]
    \cup [bytes : {"legacy"}, sender : senders,
          tx : [nonce : nonces, gas_price : prices,
                gas_limit : {MIN_TRANSACTION_GAS}, value : {0}]]

\* the options of evm_mine and evm_mine_detailed
MineOptions(counts, timestamps) ==
    {<<>>} \cup [blocks : counts] \cup [timestamp : timestamps]
           \cup [blocks : counts, timestamp : timestamps]

EmptyMap == [j \in {} |-> 0]

NoResult == [op |-> "none", ret |-> "Ok"]

\* the node after construction, with the given accounts, mining mode and
\* fork client
InitFrom(accounts, mode, client) ==
    /\ pool = <<>>
    /\ transaction_order \in TransactionOrder
    /\ db = accounts
    /\ blocks = <<>>
    /\ gas_limit = DefaultGasLimit
    /\ time = [offset |-> 0, next_timestamp |-> <<>>, interval |-> <<>>]
    /\ clock = 0
    /\ snapshots = EmptyMap
    /\ next_snapshot_id = 0
    /\ impersonated = {}
    /\ auto_impersonate = FALSE
    /\ filters = EmptyMap
    /\ fork = client
    /\ next_filter_id = 0
    /\ mining_mode = mode
    /\ miner_task = NoTask
    /\ calls = NoCalls
    /\ est = Idle
    /\ result = NoResult

\* a node that is no fork
InitWith(accounts, mode) == InitFrom(accounts, mode, NoFork)

\* a node that mines on request only
Init == InitWith(GenesisDb, ModeNone)

\* the same node with the default order of the pool
InitFees == Init /\ transaction_order = "Fees"

(***************************************************************************)
(* SpecPool: the dev account submits through the three handlers, and       *)
(* blocks are mined on request.                                            *)
(***************************************************************************)
PoolRequests == RequestsOf({"B"}, Nonces, {1})
PoolRawTransactions == RawTransactionsOf({"B"}, Nonces, {1})

PoolSendTransaction ==
    \E request \in PoolRequests : Len(pool) < MaxPool /\ send_transaction(request)

PoolSendUnsigned ==
    \E request \in PoolRequests :
        Len(pool) < MaxPool /\ eth_send_unsigned_transaction(request)

PoolSendRaw ==
    \E raw \in PoolRawTransactions :
        Len(pool) < MaxPool /\ send_raw_transaction(raw)

PoolMine == Len(blocks) < MaxBlocks /\ evm_mine(<<>>)

NextPool ==
    \/ PoolSendTransaction
    \/ PoolSendUnsigned
    \/ PoolSendRaw
    \/ PoolMine

SpecPool == Init /\ [][NextPool]_vars

(***************************************************************************)
(* SpecGap: the dev account, whose committed nonce is n, submits           *)
(* transactions with the nonces from n on, each nonce once and in any      *)
(* order, and a block is mined on request.                                 *)
(***************************************************************************)
InitGap ==
    \E n \in 0..1 : InitWith([GenesisDb EXCEPT !["B"].nonce = n], ModeNone)

\* the nonces the scenario submits
GapNonces == {current_nonce("B") + k : k \in 0..MaxNonce}

\* a nonce the pool does not hold yet
Fresh(nonce) == \A i \in 1..Len(pool) : pool[i].nonce # nonce

GapSendTransaction ==
    \E nonce \in GapNonces, price \in Prices :
        /\ blocks = <<>>
        /\ Fresh(nonce)
        /\ send_transaction([from |-> "B", nonce |-> nonce, gas_price |-> price,
                             gas |-> MIN_TRANSACTION_GAS, value |-> 0])

GapSendRaw ==
    \E nonce \in GapNonces, price \in Prices :
        /\ blocks = <<>>
        /\ Fresh(nonce)
        /\ send_raw_transaction(
               [bytes |-> "legacy", sender |-> "B",
                tx |-> [nonce |-> nonce, gas_price |-> price,
                        gas_limit |-> MIN_TRANSACTION_GAS, value |-> 0]])

GapMine == Len(blocks) < MaxBlocks /\ evm_mine(<<>>)

NextGap ==
    \/ GapSendTransaction
    \/ GapSendRaw
    \/ GapMine

SpecGap == InitGap /\ [][NextGap]_vars

(***************************************************************************)
(* SpecEstimate: eth_estimateGas over requests to and from the two         *)
(* accounts, while code, balances and the block gas limit are set.         *)
(***************************************************************************)
\* a request with the fields that are given
RequestWith(options) ==
    [f \in {g \in DOMAIN options : options[g] # <<>>} |-> options[f][1]]

\* the requests of eth_estimateGas: calls to "A" and creations, with data of
\* so many bytes; the other fields may be left out
EstimateRequests ==
    {RequestWith([from |-> from, to |-> to, data |-> <<data>>, gas |-> gas,
                  gas_price |-> gas_price, value |-> value]) :
        from \in {<<>>, <<"B">>}, to \in {<<>>, <<"A">>}, data \in 0..MaxData,
        gas \in {<<>>, <<MIN_CREATE_GAS + DataGas * MaxData>>},
        gas_price \in {<<>>, <<1>>}, value \in {<<0>>}}

EstimateGas == \E request \in EstimateRequests : estimate_gas(request)

EstimateSetCode ==
    \E code \in Codes : est.pc # "search" /\ anvil_set_code("A", code)

EstimateSetBalance ==
    \E amount \in {MIN_TRANSACTION_GAS, GenesisBalance} :
        est.pc # "search" /\ anvil_set_balance("B", amount)

EstimateSetGasLimit ==
    \E limit \in {MIN_CREATE_GAS + DataGas * MaxData, DefaultGasLimit} :
        est.pc # "search" /\ evm_set_block_gas_limit(limit)

NextEstimate ==
    \/ EstimateGas
    \/ estimate_search
    \/ estimate_return
    \/ EstimateSetCode
    \/ EstimateSetBalance
    \/ EstimateSetGasLimit

SpecEstimate == InitFees /\ [][NextEstimate]_vars

(***************************************************************************)
(* SpecSnap: one snapshot at a time is taken and reverted to; while it is   *)
(* held the accounts, the time, the pool and the chain are changed.        *)
(***************************************************************************)
\* the transfer the dev account submits
Transfer == [from |-> "B", gas_price |-> 1, gas |-> MIN_TRANSACTION_GAS, value |-> 0]

\* a snapshot is held
Held == snapshots # EmptyMap

SnapSnapshot == snapshots = EmptyMap /\ next_snapshot_id < MaxSnapshots /\ evm_snapshot

SnapRevert == \E id \in 0..MaxSnapshots : evm_revert(id)

SnapSetBalance == Held /\ anvil_set_balance("A", MIN_TRANSACTION_GAS)

SnapSetNonce == Held /\ anvil_set_nonce("A", 1)

SnapSetCode == Held /\ anvil_set_code("A", "0x00")

SnapSetStorage == Held /\ anvil_set_storage_at("A", 0, 1)

SnapIncreaseTime == Held /\ time.offset < 1 /\ evm_increase_time(1)

SnapSetNextBlockTimestamp == Held /\ evm_set_next_block_timestamp(MaxClock)

SnapSetTime == Held /\ evm_set_time(MaxClock)

SnapSend == Held /\ Len(pool) < 1 /\ send_transaction(Transfer)

SnapDrop == \E i \in 1..Len(pool) : Held /\ anvil_drop_transaction(Pending(pool[i]))

SnapMine == Held /\ Len(blocks) < MaxBlocks /\ evm_mine(<<>>)

NextSnap ==
    \/ SnapSnapshot
    \/ SnapRevert
    \/ SnapSetBalance
    \/ SnapSetNonce
    \/ SnapSetCode
    \/ SnapSetStorage
    \/ SnapIncreaseTime
    \/ SnapSetNextBlockTimestamp
    \/ SnapSetTime
    \/ SnapSend
    \/ SnapDrop
    \/ SnapMine

SpecSnap == InitFees /\ [][NextSnap]_vars

(***************************************************************************)
(* SpecRevert: snapshots are taken and reverted to in any order, while a   *)
(* balance and the time are changed.                                       *)
(***************************************************************************)
RevertSnapshot == next_snapshot_id <= MaxSnapshots /\ evm_snapshot

RevertRevert == \E id \in 0..(MaxSnapshots + 1) : evm_revert(id)

RevertSetBalance ==
    \E amount \in {0, MIN_TRANSACTION_GAS} : anvil_set_balance("A", amount)

RevertIncreaseTime == time.offset < 1 /\ evm_increase_time(1)

NextRevert ==
    \/ RevertSnapshot
    \/ RevertRevert
    \/ RevertSetBalance
    \/ RevertIncreaseTime

SpecRevert == InitFees /\ [][NextRevert]_vars

(***************************************************************************)
(* SpecFilter: filters are installed, polled, uninstalled and evicted,     *)
(* while transactions are submitted and blocks are mined on request.       *)
(***************************************************************************)
FilterIds == 0..MaxFilters

FilterNewFilter == next_filter_id < MaxFilters /\ new_filter

FilterNewBlockFilter == next_filter_id < MaxFilters /\ new_block_filter

FilterNewPendingTransactionFilter ==
    next_filter_id < MaxFilters /\ new_pending_transaction_filter

FilterChanges == \E id \in FilterIds : get_filter_changes(id)

FilterLogs == \E id \in FilterIds : get_filter_logs(id)

FilterUninstall == \E id \in FilterIds : uninstall_filter(id)

FilterEvict == \E id \in FilterIds : evict_filter(id)

FilterSend == Len(pool) < MaxWaiting /\ send_transaction(Transfer)

FilterMine ==
    \E opts \in MineOptions(1..MaxMine, {}) :
        /\ Len(blocks) + blocks_to_mine(opts) <= MaxChain
        /\ evm_mine(opts)

NextFilter ==
    \/ FilterNewFilter
    \/ FilterNewBlockFilter
    \/ FilterNewPendingTransactionFilter
    \/ FilterChanges
    \/ FilterLogs
    \/ FilterUninstall
    \/ FilterEvict
    \/ FilterSend
    \/ FilterMine

SpecFilter == InitFees /\ [][NextFilter]_vars

(***************************************************************************)
(* SpecCheat: accounts are impersonated and funded while both accounts     *)
(* submit transfers, and blocks are mined on request.                      *)
(***************************************************************************)
CheatRequests == RequestsOf(Address, {}, {1})

CheatImpersonate == \E address \in Address : anvil_impersonate_account(address)

CheatStopImpersonating ==
    \E address \in Address : anvil_stop_impersonating_account(address)

CheatAutoImpersonate ==
    \E enabled \in BOOLEAN : anvil_auto_impersonate_account(enabled)

CheatSetBalance ==
    \E amount \in {0, GenesisBalance} : anvil_set_balance("A", amount)

CheatSendTransaction ==
    \E request \in CheatRequests :
        send_transaction(request) /\ Len(pool') <= MaxWaiting

CheatSendUnsigned ==
    \E request \in CheatRequests :
        eth_send_unsigned_transaction(request) /\ Len(pool') <= MaxWaiting

CheatMine == Len(blocks) < MaxBlocks /\ evm_mine(<<>>)

NextCheat ==
    \/ CheatImpersonate
    \/ CheatStopImpersonating
    \/ CheatAutoImpersonate
    \/ CheatSetBalance
    \/ CheatSendTransaction
    \/ CheatSendUnsigned
    \/ CheatMine

SpecCheat == InitFees /\ [][NextCheat]_vars

(***************************************************************************)
(* SpecMiner: the mining mode is switched while transfers arrive, time     *)
(* passes, the miner runs and blocks are mined on request.                 *)
(***************************************************************************)
\* a node that starts in the instant mode
InitMiner == InitWith(GenesisDb, ModeAuto) /\ transaction_order = "Fees"

MinerGetAutoMine == anvil_get_auto_mine

MinerSetAutoMine == \E enable \in BOOLEAN : anvil_set_auto_mine(enable)

MinerSetIntervalMining == \E secs \in 0..MaxInterval : anvil_set_interval_mining(secs)

MinerSend == Len(pool) < 1 /\ send_transaction(Transfer)

MinerTick == clock < MaxClock /\ tick

MinerInstant == Len(blocks) < MaxChain /\ miner_instant

MinerFixedBlockTime == Len(blocks) < MaxChain /\ miner_fixed_block_time

MinerEvmMine ==
    \E opts \in MineOptions(1..MaxMine, {}) :
        /\ Len(blocks) + blocks_to_mine(opts) <= MaxChain
        /\ evm_mine(opts)

MinerEvmMineDetailed ==
    \E opts \in MineOptions(1..MaxMine, {}) :
        /\ Len(blocks) + blocks_to_mine(opts) <= MaxChain
        /\ evm_mine_detailed(opts)

MinerAnvilMine ==
    \E num_blocks \in {<<>>} \cup {<<n>> : n \in 0..MaxMine} :
        /\ Len(blocks) + (IF num_blocks = <<>> THEN 1 ELSE num_blocks[1]) <= MaxChain
        /\ anvil_mine(num_blocks, <<>>)

NextMiner ==
    \/ MinerGetAutoMine
    \/ MinerSetAutoMine
    \/ MinerSetIntervalMining
    \/ MinerSend
    \/ MinerTick
    \/ MinerInstant
    \/ MinerFixedBlockTime
    \/ MinerEvmMine
    \/ MinerEvmMineDetailed
    \/ MinerAnvilMine

SpecMiner == InitMiner /\ [][NextMiner]_vars

(***************************************************************************)
(* SpecAuto: a node in the instant mode.  The dev account submits and      *)
(* drops transactions; nobody asks for a block, the miner's task alone     *)
(* commits them.  SpecAutoFair adds what the runtime gives the task: once  *)
(* signalled, it is polled.                                                *)
(***************************************************************************)
InitAuto == InitWith(GenesisDb, ModeAuto)

\* the pending transactions the scenario can submit
AutoPendings ==
    [sender : {"B"}, nonce : Nonces, gas_price : Prices,
     gas_limit : {MIN_TRANSACTION_GAS}, value : {0}, signature : {"signed"}]

\* the client stops submitting once the chain and the nonces reached the bounds
AutoWithin(p) ==
    /\ Len(blocks) < MaxChain
    /\ Len(p) <= MaxPool
    /\ \A i \in 1..Len(p) : p[i].nonce <= MaxNonce

AutoSendTransaction ==
    \E request \in RequestsOf({"B"}, Nonces, Prices) :
        send_transaction(request) /\ AutoWithin(pool')

AutoSendRaw ==
    \E raw \in RawTransactionsOf({"B"}, Nonces, Prices) :
        send_raw_transaction(raw) /\ AutoWithin(pool')

AutoDrop ==
    \E tx_hash \in AutoPendings :
        Len(blocks) < MaxChain /\ anvil_drop_transaction(tx_hash)

AutoInstant == is_auto_mine /\ miner_instant

NextAuto ==
    \/ AutoSendTransaction
    \/ AutoSendRaw
    \/ AutoDrop
    \/ AutoInstant

SpecAuto == InitAuto /\ [][NextAuto]_vars

\* the steps that take the signal from the miner's task; under NextAuto these
\* are the steps of AutoInstant
AutoPolled ==
    /\ is_auto_mine
    /\ mining_mode.signalled
    /\ mining_mode' = [mining_mode EXCEPT !.signalled = FALSE]

SpecAutoFair == SpecAuto /\ WF_mining_mode(AutoPolled)

(***************************************************************************)
(* SpecInterval: the interval mode is switched on once, at time 0 of the   *)
(* wall clock; the dev account submits transfers, time passes and the      *)
(* miner's task commits the blocks.  Nobody asks for a block.              *)
(***************************************************************************)
IntervalRequests == RequestsOf({"B"}, Nonces, {1})

IntervalSetIntervalMining ==
    \E secs \in 1..MaxInterval :
        mining_mode.kind = "None" /\ anvil_set_interval_mining(secs)

IntervalSend ==
    \E request \in IntervalRequests :
        Len(pool) < MaxPool /\ send_transaction(request)

IntervalTick ==
    /\ mining_mode.kind = "FixedBlockTime"
    /\ clock < MaxClock
    /\ tick

IntervalFixedBlockTime == is_fixed_block_time /\ miner_fixed_block_time

NextInterval ==
    \/ IntervalSetIntervalMining
    \/ IntervalSend
    \/ IntervalTick
    \/ IntervalFixedBlockTime

SpecInterval == Init /\ [][NextInterval]_vars

(***************************************************************************)
(* SpecEvmMine and SpecAnvilMine: blocks are mined on request, through     *)
(* evm_mine and evm_mine_detailed in the one and through anvil_mine in the *)
(* other, with their options, on a node in any of the three mining modes,  *)
(* while the dev account submits transfers and the miner's task runs.      *)
(***************************************************************************)
InitMine ==
    \E mode \in {ModeNone, ModeAuto, ModeFixedBlockTime(1)} :
        InitWith(GenesisDb, mode) /\ transaction_order = "Fees"

\* the options of the scenario: up to MaxMine blocks, none included, and a
\* timestamp ahead of the clock
MineRequests == MineOptions(0..MaxMine, {MaxClock + 1})

MineSend == Len(pool) < MaxWaiting /\ send_transaction(Transfer)

MineInstant == Len(blocks) < MaxChain /\ miner_instant

MineFixedBlockTime == Len(blocks) < MaxChain /\ miner_fixed_block_time

MineEvmMine ==
    \E opts \in MineRequests :
        /\ Len(blocks) + blocks_to_mine(opts) <= MaxChain
        /\ evm_mine(opts)

MineEvmMineDetailed ==
    \E opts \in MineRequests :
        /\ Len(blocks) + blocks_to_mine(opts) <= MaxChain
        /\ evm_mine_detailed(opts)

MineAnvilMine ==
    \E num_blocks \in {<<>>} \cup {<<n>> : n \in 0..MaxMine},
       interval \in {<<>>, <<0>>, <<1>>} :
        /\ anvil_mine(num_blocks, interval)
        /\ Len(blocks') <= MaxChain
        /\ clock' <= MaxClock

NextEvmMine ==
    \/ MineSend
    \/ MineInstant
    \/ MineEvmMine
    \/ MineEvmMineDetailed

SpecEvmMine == InitMine /\ [][NextEvmMine]_vars

NextAnvilMine ==
    \/ MineSend
    \/ MineInstant
    \/ MineFixedBlockTime
    \/ MineAnvilMine

SpecAnvilMine == InitMine /\ [][NextAnvilMine]_vars

(***************************************************************************)
(* SpecGas: the dev account submits transfers, the block gas limit is      *)
(* set, also below the gas of what the pool holds, and blocks are mined on *)
(* request.                                                                *)
(***************************************************************************)
GasRequests == RequestsOf({"B"}, Nonces, {1})

\* below one transfer, one transfer, the default
GasLimits == {MIN_TRANSACTION_GAS - 1, MIN_TRANSACTION_GAS, DefaultGasLimit}

GasSend ==
    \E request \in GasRequests :
        Len(pool) < MaxPool /\ send_transaction(request)

GasSetBlockGasLimit == \E limit \in GasLimits : evm_set_block_gas_limit(limit)

GasMine == Len(blocks) < MaxChain /\ evm_mine(<<>>)

NextGas ==
    \/ GasSend
    \/ GasSetBlockGasLimit
    \/ GasMine

SpecGas == InitFees /\ [][NextGas]_vars

(***************************************************************************)
(* SpecNonce: the dev account submits transfers with the nonces it likes,  *)
(* its nonce is set with anvil_setNonce, and blocks are mined on request.  *)
(***************************************************************************)
NonceRequests == RequestsOf({"B"}, Nonces, {1})
NonceRawTransactions == RawTransactionsOf({"B"}, Nonces, {1})

NonceSendTransaction ==
    \E request \in NonceRequests :
        send_transaction(request) /\ Len(pool') <= MaxWaiting

NonceSendRaw ==
    \E raw \in NonceRawTransactions :
        send_raw_transaction(raw) /\ Len(pool') <= MaxWaiting

NonceSetNonce == \E nonce \in {0, MaxNonce} : anvil_set_nonce("B", nonce)

NonceMine == Len(blocks) < MaxBlocks /\ evm_mine(<<>>)

NextNonce ==
    \/ NonceSendTransaction
    \/ NonceSendRaw
    \/ NonceSetNonce
    \/ NonceMine

SpecNonce == InitFees /\ [][NextNonce]_vars

(***************************************************************************)
(* A fork that answers state queries: one reader asks each of the queries  *)
(* about account "A" at the blocks the chain has, blocks are mined on top  *)
(* of the pin, and the remote endpoint answers.                            *)
(***************************************************************************)
InitForkQuery == \E p \in 1..MaxPin : InitFrom(GenesisDb, ModeNone, ForkAt(p))

\* the block ids a request names: any kind, numbers up to the best block
QueryBlocks == BlockIds(0..best_number)

QueryWithin == Len(fork'.calls) <= MaxRemoteCalls

QueryBalance == \E b \in QueryBlocks : balance("r1", "A", b) /\ QueryWithin
QueryTransactionCount ==
    \E b \in QueryBlocks : get_transaction_count("r1", "A", b) /\ QueryWithin
QueryCode == \E b \in QueryBlocks : get_code("r1", "A", b) /\ QueryWithin
QueryStorage == \E b \in QueryBlocks : storage_at("r1", "A", 0, b) /\ QueryWithin
QueryProof == \E b \in QueryBlocks : get_proof("r1", "A", b) /\ QueryWithin
QueryCall == \E b \in QueryBlocks : call("r1", "A", b) /\ QueryWithin
QueryEstimateGas ==
    \E b \in QueryBlocks : do_estimate_gas("r1", "A", b) /\ QueryWithin
QueryUncle ==
    \E b \in {q \in QueryBlocks : q.kind # "None"} :
        uncle_by_block_number_and_index("r1", b, 0) /\ QueryWithin
QueryFetched == \E key \in fork.inflight : fork_fetched(key)
QueryMine == Len(blocks) < MaxBlocks /\ evm_mine(<<>>)

NextForkQuery ==
    \/ QueryBalance
    \/ QueryTransactionCount
    \/ QueryCode
    \/ QueryStorage
    \/ QueryProof
    \/ QueryCall
    \/ QueryEstimateGas
    \/ QueryUncle
    \/ QueryFetched
    \/ QueryMine

SpecForkQuery == InitForkQuery /\ [][NextForkQuery]_vars

(***************************************************************************)
(* The fork cache: two readers read one storage slot of "A" at the pending *)
(* block and at the blocks up to the pin, the remote endpoint answers, and *)
(* the slot is overwritten locally.                                        *)
(***************************************************************************)
CacheBlocks ==
    {b \in BlockIds(0..fork.pin[1]) : b.kind \in {"Pending", "Number"}}

CacheRead ==
    \E r \in Readers, b \in CacheBlocks :
        storage_at(r, "A", 0, b) /\ Len(fork'.calls) <= MaxFetches
CacheFetched == \E key \in fork.inflight : fork_fetched(key)
CacheSetStorage == \E val \in {0, 2} : anvil_set_storage_at("A", 0, val)

NextForkCache ==
    \/ CacheRead
    \/ CacheFetched
    \/ CacheSetStorage

SpecForkCache == InitForkQuery /\ [][NextForkCache]_vars

(***************************************************************************)
(* anvil_reset on a fork, between reads, local writes and mined blocks.    *)
(***************************************************************************)
\* the forking parameter: absent, or with or without a block number
Forkings ==
    {<<>>} \cup {<<[block_number |-> b]>> :
                    b \in {<<>>} \cup {<<n>> : n \in 0..MaxPin}}

ResetReset == \E forking \in Forkings : anvil_reset(forking)
ResetRead ==
    \E b \in {q \in QueryBlocks : q.kind \in {"Pending", "Number"}} :
        storage_at("r1", "A", 0, b) /\ Len(fork'.calls) <= MaxRemoteCalls
ResetFetched == \E key \in fork.inflight : fork_fetched(key)
ResetSetStorage == anvil_set_storage_at("A", 0, 2)
ResetMine == Len(blocks) < MaxBlocks /\ evm_mine(<<>>)

NextReset ==
    \/ ResetReset
    \/ ResetRead
    \/ ResetFetched
    \/ ResetSetStorage
    \/ ResetMine

SpecReset == InitForkQuery /\ [][NextReset]_vars

(***************************************************************************)
(* SpecValidate: both accounts submit through the three handlers, with     *)
(* requests that pass and requests that fail each step in front of the     *)
(* pool, and blocks are mined on request.  "A" has no signer and no funds; *)
(* the gas of a request is a transfer's or above the block gas limit.      *)
(***************************************************************************)
ValidateNonces == 0..1
ValidateGas == {MIN_TRANSACTION_GAS, DefaultGasLimit + 1}

ValidateRequests ==
    [from : Address, nonce : ValidateNonces, gas_price : {1},
     gas : ValidateGas, value : {0}]
    \cup [nonce : ValidateNonces, gas_price : {1}, gas : ValidateGas, value : {0}]

ValidateRawTransactions ==
    [bytes : {"empty", "undecodable"}]
    \cup [bytes : {"legacy"}, sender : Address,
          tx : [nonce : ValidateNonces, gas_price : {1},
                gas_limit : ValidateGas, value : {0}]]

ValidateSendTransaction ==
    \E request \in ValidateRequests :
        send_transaction(request) /\ Len(pool') <= MaxPool

ValidateSendUnsigned ==
    \E request \in ValidateRequests :
        eth_send_unsigned_transaction(request) /\ Len(pool') <= MaxPool

ValidateSendRaw ==
    \E raw \in ValidateRawTransactions :
        send_raw_transaction(raw) /\ Len(pool') <= MaxPool

ValidateMine == Len(blocks) < MaxBlocks /\ evm_mine(<<>>)

NextValidate ==
    \/ ValidateSendTransaction
    \/ ValidateSendUnsigned
    \/ ValidateSendRaw
    \/ ValidateMine

SpecValidate == InitFees /\ [][NextValidate]_vars

(***************************************************************************)
(* SpecReplace: the dev account submits transactions with the same nonces  *)
(* at different gas prices, signed by the node or by itself, under either order  *)
(* of the pool, and blocks are mined on request.                           *)
(***************************************************************************)
ReplaceNonces == 0..1
ReplacePrices == {1, MaxPrice}
ReplaceRequests ==
    [from : {"B"}, nonce : ReplaceNonces, gas_price : ReplacePrices,
     gas : {MIN_TRANSACTION_GAS}, value : {0}]
ReplaceRawTransactions ==
    [bytes : {"legacy"}, sender : {"B"},
     tx : [nonce : ReplaceNonces, gas_price : ReplacePrices,
           gas_limit : {MIN_TRANSACTION_GAS}, value : {0}]]

ReplaceSendTransaction ==
    \E request \in ReplaceRequests :
        send_transaction(request) /\ Len(pool') <= MaxPool

ReplaceSendRaw ==
    \E raw \in ReplaceRawTransactions :
        send_raw_transaction(raw) /\ Len(pool') <= MaxPool

ReplaceMine == Len(blocks) < MaxBlocks /\ evm_mine(<<>>)

NextReplace ==
    \/ ReplaceSendTransaction
    \/ ReplaceSendRaw
    \/ ReplaceMine

SpecReplace == Init /\ [][NextReplace]_vars

(***************************************************************************)
(* SpecMineOne: mine_one in its two halves, with the dev account's         *)
(* transactions entering and leaving the pool before, between and after    *)
(* them.                                                                   *)
(***************************************************************************)
MineOneRequests == ReplaceRequests
MineOneRawTransactions == ReplaceRawTransactions
MineOnePendings == {Pending(t) : t \in Range(pool)}

MineOneSend ==
    \E request \in MineOneRequests :
        send_transaction(request) /\ Len(pool') <= MaxPool
MineOneSendRaw ==
    \E raw \in MineOneRawTransactions :
        send_raw_transaction(raw) /\ Len(pool') <= MaxPool
MineOneDrop == \E hash \in MineOnePendings : anvil_drop_transaction(hash)
MineOneSnapshot == Len(blocks) < MaxBlocks /\ mine_one_snapshot
MineOneCommit == mine_one_commit

NextMineOne ==
    \/ MineOneSend
    \/ MineOneSendRaw
    \/ MineOneDrop
    \/ MineOneSnapshot
    \/ MineOneCommit

SpecMineOne == InitFees /\ [][NextMineOne]_vars

(***************************************************************************)
(* SpecSearch: one call of eth_estimateGas, from its arrival to its        *)
(* response, where every execution may end in any way: the block gas limit *)
(* of the node lies a few units above the gas of a transfer, so that the   *)
(* whole binary search is walked.                                          *)
(***************************************************************************)
\* the block gas limit the searches run under
SearchGasLimit == MIN_TRANSACTION_GAS + MaxSpan

\* the ways an execution may end: an error of the executor, or an exit
\* reason with the gas used; three times the gas used lies below or above
\* the lowest gas limit of a call
SearchOutcomes ==
    {[err |-> e] : e \in {"GasTooHigh", "InsufficientFunds"}}
    \cup {[err |-> "", exit |-> "Ok", gas |-> gas] :
            gas \in {MIN_TRANSACTION_GAS \div 3 - 1, MIN_TRANSACTION_GAS}}
    \cup {[err |-> "", exit |-> exit, gas |-> MIN_TRANSACTION_GAS] :
            exit \in {"Revert", "OutOfEnergy", "OutOfFund", "InvalidFEOpcode"}}

\* the ways the second run of map_out_of_gas_err may end
SearchOutcomesAgain ==
    {ethres \in SearchOutcomes :
        ended(ethres) \in {"Ok", "Revert", "InvalidFEOpcode"}
                         /\ ethres.gas = MIN_TRANSACTION_GAS}

\* the requests: from an account without funds, the dev account or nobody,
\* to "A" or a creation, data absent, empty or one byte, gas below the gas
\* of a transfer or at the block gas limit, with and without price and value
SearchRequests ==
    {RequestWith([from |-> from, to |-> to, data |-> data, gas |-> gas,
                  gas_price |-> paid, value |-> paid]) :
        from \in {<<>>, <<"A">>, <<"B">>}, to \in {<<>>, <<"A">>},
        data \in {<<>>, <<0>>, <<1>>},
        gas \in {<<>>, <<MIN_TRANSACTION_GAS - 1>>, <<SearchGasLimit>>},
        paid \in {<<>>, <<1>>}}

\* whether map_out_of_gas_err runs the request again
runs_again(request, ethres) ==
    /\ Has(request, "gas") \/ Has(request, "gas_price")
    /\ ended(ethres) \in {"GasTooHigh", "Revert"}

SearchSetCode ==
    \E code \in {"", "0x00"} :
        est.pc = "idle" /\ gas_limit = SearchGasLimit /\ anvil_set_code("A", code)

SearchEstimateGas ==
    /\ est.pc = "idle"
    /\ gas_limit = SearchGasLimit
    /\ \E request \in SearchRequests, ethres \in SearchOutcomes :
           \E again \in IF runs_again(request, ethres)
                        THEN SearchOutcomesAgain ELSE {ethres} :
               estimate_gas_given(request, ethres, again)

SearchTurn == \E ethres \in SearchOutcomes : estimate_search_given(ethres)

SearchReturn == estimate_return

NextSearch ==
    \/ SearchSetCode
    \/ SearchEstimateGas
    \/ SearchTurn
    \/ SearchReturn

\* the node constructed with that block gas limit
InitSearch ==
    /\ pool = <<>>
    /\ transaction_order = "Fees"
    /\ db = GenesisDb
    /\ blocks = <<>>
    /\ gas_limit = SearchGasLimit
    /\ time = [offset |-> 0, next_timestamp |-> <<>>, interval |-> <<>>]
    /\ clock = 0
    /\ snapshots = EmptyMap
    /\ next_snapshot_id = 0
    /\ impersonated = {}
    /\ auto_impersonate = FALSE
    /\ filters = EmptyMap
    /\ fork = NoFork
    /\ next_filter_id = 0
    /\ mining_mode = ModeNone
    /\ miner_task = NoTask
    /\ calls = NoCalls
    /\ est = Idle
    /\ result = NoResult

SpecSearch == InitSearch /\ [][NextSearch]_vars

\* a search that has begun is carried on: the handler runs to its end
SpecSearchFair == SpecSearch /\ WF_est(SearchTurn \/ SearchReturn)

(***************************************************************************)
(* SpecTxpool: the dev account's transactions, in and out of nonce         *)
(* sequence, enter and leave the pool, blocks are mined on request, and    *)
(* the pool is looked at through the txpool namespace.                     *)
(***************************************************************************)
TxpoolInspect == txpool_inspect
TxpoolContent == txpool_content

NextTxpool ==
    \/ MineOneSend
    \/ MineOneSendRaw
    \/ MineOneDrop
    \/ ReplaceMine
    \/ TxpoolInspect
    \/ TxpoolContent

SpecTxpool == InitFees /\ [][NextTxpool]_vars

(***************************************************************************)
(* SpecSetTime: the time of the node is set, at the current time, a few    *)
(* seconds and a few thousand seconds ahead of it and behind it, while the *)
(* seconds pass and the time is moved forward.                             *)
(***************************************************************************)
SetTimes == {0, 2, 5, 1000, 1002, 2005, 3000}

SetTimeSet == \E timestamp \in SetTimes : evm_set_time(timestamp)
SetTimeIncrease == time.offset < 1 /\ evm_increase_time(1)
SetTimeTick == clock < MaxClock /\ tick

NextSetTime ==
    \/ SetTimeSet
    \/ SetTimeIncrease
    \/ SetTimeTick

SpecSetTime == InitFees /\ [][NextSetTime]_vars

(***************************************************************************)
(* SpecMarker: required_marker and to_marker as send_transaction applies   *)
(* them, over every nonce and on-chain nonce up to MaxMarkerNonce.         *)
(***************************************************************************)
\* send_transaction's markers of a transaction: requires, provides
markers(nonce, on_chain_nonce, from) ==
    [op |-> "required_marker", nonce |-> nonce, on_chain_nonce |-> on_chain_nonce,
     requires |-> required_marker(nonce, on_chain_nonce, from),
     provides |-> <<to_marker(nonce, from)>>]

MarkerApply ==
    \E nonce \in 0..MaxMarkerNonce, on_chain_nonce \in 0..MaxMarkerNonce,
       from \in Address :
        /\ result' = markers(nonce, on_chain_nonce, from)
        /\ UNCHANGED est
        /\ EstimateUnchanged

NextMarker == MarkerApply

SpecMarker == InitFees /\ [][NextMarker]_vars

(***************************************************************************)
(* SpecEnvironment: the block environment of a fork is initialised from a  *)
(* remote whose chain grows while it is asked, which may have pruned old   *)
(* blocks and whose answers may fail (evm/src/executor/fork/init.rs).      *)
(***************************************************************************)
\* the calls joined by tokio::try_join!
Joined == <<"gas_price", "networkid", "block">>

\* the error of each joined call
JoinedError(joined) ==
    CASE joined = "gas_price" -> "Failed to get gas price"
      [] joined = "networkid" -> "Failed to get network id"
      [] OTHER -> "Failed to get block"

\* the joined calls that fail for a block number
joined_failures(provider, block_number) ==
    {i \in 1..Len(Joined) :
        \/ Joined[i] = "gas_price" /\ ~provider.gas_price
        \/ Joined[i] = "networkid" /\ ~provider.networkid
        \/ Joined[i] = "block" /\ provider.block[block_number] = "Err"}

\* what a call of environment leaves: the block number, the answers to
\* get_block and to the second get_block_number, the diagnostic, the error
\* and the environment
Initialised(pin_block, head, block_number, block, latest, warned, err, env) ==
    [op |-> "environment", pin_block |-> pin_block, head |-> head,
     block_number |-> block_number, block |-> block, latest |-> latest,
     warned |-> warned, err |-> err, env |-> env]

\* environment with a diagnostic only strictly below the latest block number
environment_below(provider, pin_block, first) ==
    IF pin_block = <<>> /\ provider.number = <<>>
    THEN Initialised(pin_block, provider.head, <<>>, "", <<>>, FALSE,
                     "Failed to get latest block number", <<>>)
    ELSE LET block_number == IF pin_block # <<>> THEN pin_block[1]
                             ELSE provider.number[1]
             failures == joined_failures(provider, block_number)
             block == provider.block[block_number]
         IN  IF failures # {}
             THEN Initialised(pin_block, provider.head, <<block_number>>, "",
                              <<>>, FALSE,
                              JoinedError(Joined[IF first \in failures THEN first
                                                 ELSE CHOOSE i \in failures : TRUE]),
                              <<>>)
             ELSE IF block = "Some"
             THEN Initialised(pin_block, provider.head, <<block_number>>, block,
                              <<>>, FALSE, "", <<block_number>>)
             ELSE Initialised(pin_block, provider.head, <<block_number>>, block,
                              provider.latest,
                              provider.latest # <<>>
                                  /\ block_number < provider.latest[1],
                              "Failed to get block for block number", <<>>)

\* environment: the block number is the pin or the remote's latest; price,
\* network id and block are fetched together and the first error ends the
\* call; a missing block ends it too, with the diagnostic of a non-archive
\* node when the remote answers a latest block number that is not below
\* the block number
environment(provider, pin_block, first) ==
    IF pin_block = <<>> /\ provider.number = <<>>
    THEN Initialised(pin_block, provider.head, <<>>, "", <<>>, FALSE,
                     "Failed to get latest block number", <<>>)
    ELSE LET block_number == IF pin_block # <<>> THEN pin_block[1]
                             ELSE provider.number[1]
             failures == joined_failures(provider, block_number)
             block == provider.block[block_number]
         IN  IF failures # {}
             THEN Initialised(pin_block, provider.head, <<block_number>>, "",
                              <<>>, FALSE,
                              JoinedError(Joined[IF first \in failures THEN first
                                                 ELSE CHOOSE i \in failures : TRUE]),
                              <<>>)
             ELSE IF block = "Some"
             THEN Initialised(pin_block, provider.head, <<block_number>>, block,
                              <<>>, FALSE, "", <<block_number>>)
             ELSE Initialised(pin_block, provider.head, <<block_number>>, block,
                              provider.latest,
                              provider.latest # <<>>
                                  /\ block_number <= provider.latest[1],
                              "Failed to get block for block number", <<>>)

\* the block numbers a fork may be pinned at: one beyond the remote's chain
EnvironmentNumbers == 0..(MaxHead + 1)

\* the remotes: the chain has grown to heads[1], heads[2] and heads[3] at
\* the three moments it is asked, the blocks below oldest are pruned, and
\* each call in up is answered
Providers ==
    {[head |-> heads[3],
      number |-> IF "number" \in up THEN <<heads[1]>> ELSE <<>>,
      gas_price |-> "gas_price" \in up,
      networkid |-> "networkid" \in up,
      block |-> [n \in EnvironmentNumbers |->
                    IF "block" \notin up THEN "Err"
                    ELSE IF oldest <= n /\ n <= heads[2] THEN "Some"
                    ELSE "None"],
      latest |-> IF "latest" \in up THEN <<heads[3]>> ELSE <<>>] :
        heads \in {h \in [1..3 -> 0..MaxHead] : h[1] <= h[2] /\ h[2] <= h[3]},
        oldest \in 0..MaxHead,
        up \in SUBSET {"number", "gas_price", "networkid", "block", "latest"}}

EnvironmentCall ==
    \E provider \in Providers,
       pin_block \in {<<>>} \cup {<<n>> : n \in EnvironmentNumbers},
       first \in 1..Len(Joined) :
        /\ result.op = "none"
        /\ result' = environment(provider, pin_block, first)
        /\ UNCHANGED est
        /\ EstimateUnchanged

NextEnvironment == EnvironmentCall

SpecEnvironment == InitFees /\ [][NextEnvironment]_vars

(***************************************************************************)
(* SpecDispatch: a JSON-RPC method is deserialised into an EthRequest and  *)
(* EthApi::execute hands the request to its handler.                       *)
(***************************************************************************)
\* a method name: its namespace and the name behind the underscore
N(ns, name) == [ns |-> ns, name |-> name]

\* the JSON-RPC methods of the interface
Methods ==
    {N("web3", "clientVersion"), N("web3", "sha3"), N("eth", "chainId"),
     N("eth", "networkId"), N("net", "version"), N("net", "listening"),
     N("eth", "syncing"), N("eth", "blockNumber"), N("eth", "gasPrice"),
     N("eth", "accounts"), N("eth", "coinbase"), N("eth", "getBalance"),
     N("eth", "getStorageAt"), N("eth", "getCode"), N("eth", "getProof"),
     N("eth", "getBlockByHash"), N("eth", "getBlockByNumber"),
     N("eth", "getTransactionCount"),
     N("eth", "getBlockTransactionCountByHash"),
     N("eth", "getBlockTransactionCountByNumber"),
     N("eth", "getUncleCountByBlockHash"),
     N("eth", "getUncleCountByBlockNumber"),
     N("eth", "getTransactionByHash"),
     N("eth", "getTransactionByBlockHashAndIndex"),
     N("eth", "getTransactionByBlockNumberAndIndex"),
     N("eth", "getTransactionReceipt"),
     N("eth", "getUncleByBlockHashAndIndex"),
     N("eth", "getUncleByBlockNumberAndIndex"), N("eth", "getLogs"),
     N("eth", "newFilter"), N("eth", "newBlockFilter"),
     N("eth", "newPendingTransactionFilter"), N("eth", "getFilterChanges"),
     N("eth", "getFilterLogs"), N("eth", "uninstallFilter"),
     N("eth", "sendTransaction"), N("eth", "sendRawTransaction"),
     N("eth", "sendUnsignedTransaction"), N("eth", "signTransaction"),
     N("eth", "sign"), N("eth", "signTypedData_v4"), N("eth", "call"),
     N("eth", "estimateGas"), N("eth", "getWork"), N("eth", "submitWork"),
     N("eth", "submitHashrate"), N("debug", "traceTransaction"),
     N("debug", "traceCall"), N("trace", "transaction"),
     N("trace", "block"), N("txpool", "status"), N("txpool", "inspect"),
     N("txpool", "content"), N("anvil", "impersonateAccount"),
     N("hardhat", "impersonateAccount"),
     N("anvil", "stopImpersonatingAccount"),
     N("anvil", "autoImpersonateAccount"), N("anvil", "getAutomine"),
     N("evm", "setAutomine"), N("evm", "setIntervalMining"),
     N("anvil", "mine"), N("anvil", "dropTransaction"), N("anvil", "reset"),
     N("anvil", "setRpcUrl"), N("anvil", "setBalance"),
     N("anvil", "setCode"), N("anvil", "setNonce"),
     N("evm", "setAccountNonce"), N("anvil", "setStorageAt"),
     N("anvil", "setCoinbase"), N("anvil", "setLoggingEnabled"),
     N("anvil", "setMinGasPrice"), N("anvil", "setBlock"),
     N("anvil", "dumpState"), N("anvil", "loadState"),
     N("anvil", "nodeInfo"), N("anvil", "enableTraces"),
     N("evm", "snapshot"), N("evm", "revert"), N("evm", "increaseTime"),
     N("evm", "setTime"), N("evm", "setNextBlockTimestamp"),
     N("evm", "setBlockGasLimit"), N("anvil", "setBlockTimestampInterval"),
     N("anvil", "removeBlockTimestampInterval"), N("evm", "mine"),
     N("anvil", "mine_detailed")}

\* the name a method of the interface bears on the wire of this node, which
\* serves the namespaces xcb and shuttle and counts gas as energy
Wire(method) ==
    N(CASE method.ns = "eth" -> "xcb"
        [] method.ns = "anvil" -> "shuttle"
        [] OTHER -> method.ns,
      CASE method.name = "gasPrice" -> "energyPrice"
        [] method.name = "estimateGas" -> "estimateEnergy"
        [] OTHER -> method.name)

\* EthRequest: the variants, each with the names serde accepts for it
EthRequest ==
    {<<"Web3ClientVersion", {N("web3", "clientVersion")}>>,
     <<"Web3Sha3", {N("web3", "sha3")}>>,
     <<"EthNetworkId", {N("xcb", "networkId"), N("net", "version")}>>,
     <<"NetListening", {N("net", "listening")}>>,
     <<"EthGasPrice", {N("xcb", "energyPrice")}>>,
     <<"EthAccounts", {N("xcb", "accounts"), N("xcb", "requestAccounts")}>>,
     <<"EthBlockNumber", {N("xcb", "blockNumber")}>>,
     <<"EthGetBalance", {N("xcb", "getBalance")}>>,
     <<"EthGetStorageAt", {N("xcb", "getStorageAt")}>>,
     <<"EthGetBlockByHash", {N("xcb", "getBlockByHash")}>>,
     <<"EthGetBlockByNumber", {N("xcb", "getBlockByNumber")}>>,
     <<"EthGetTransactionCount", {N("xcb", "getTransactionCount")}>>,
     <<"EthGetTransactionCountByHash", {N("xcb", "getBlockTransactionCountByHash")}>>,
     <<"EthGetTransactionCountByNumber", {N("xcb", "getBlockTransactionCountByNumber")}>>,
     <<"EthGetUnclesCountByHash", {N("xcb", "getUncleCountByBlockHash")}>>,
     <<"EthGetUnclesCountByNumber", {N("xcb", "getUncleCountByBlockNumber")}>>,
     <<"EthGetCodeAt", {N("xcb", "getCode")}>>,
     <<"EthGetProof", {N("xcb", "getProof")}>>,
     <<"EthSign", {N("xcb", "sign")}>>,
     <<"EthSignTransaction", {N("xcb", "signTransaction")}>>,
     <<"EthSignTypedData", {N("xcb", "signTypedData")}>>,
     <<"EthSignTypedDataV3", {N("xcb", "signTypedData_v3")}>>,
     <<"EthSignTypedDataV4", {N("xcb", "signTypedData_v4")}>>,
     <<"EthSendTransaction", {N("xcb", "sendTransaction")}>>,
     <<"EthSendRawTransaction", {N("xcb", "sendRawTransaction")}>>,
     <<"EthCall", {N("xcb", "call")}>>,
     <<"EthEstimateGas", {N("xcb", "estimateEnergy")}>>,
     <<"EthGetTransactionByHash", {N("xcb", "getTransactionByHash")}>>,
     <<"EthGetTransactionByBlockHashAndIndex", {N("xcb", "getTransactionByBlockHashAndIndex")}>>,
     <<"EthGetTransactionByBlockNumberAndIndex", {N("xcb", "getTransactionByBlockNumberAndIndex")}>>,
     <<"EthGetTransactionReceipt", {N("xcb", "getTransactionReceipt")}>>,
     <<"EthGetUncleByBlockHashAndIndex", {N("xcb", "getUncleByBlockHashAndIndex")}>>,
     <<"EthGetUncleByBlockNumberAndIndex", {N("xcb", "getUncleByBlockNumberAndIndex")}>>,
     <<"EthGetLogs", {N("xcb", "getLogs")}>>,
     <<"EthNewFilter", {N("xcb", "newFilter")}>>,
     <<"EthGetFilterChanges", {N("xcb", "getFilterChanges")}>>,
     <<"EthNewBlockFilter", {N("xcb", "newBlockFilter")}>>,
     <<"EthNewPendingTransactionFilter", {N("xcb", "newPendingTransactionFilter")}>>,
     <<"EthGetFilterLogs", {N("xcb", "getFilterLogs")}>>,
     <<"EthUninstallFilter", {N("xcb", "uninstallFilter")}>>,
     <<"EthGetWork", {N("xcb", "getWork")}>>,
     <<"EthSubmitWork", {N("xcb", "submitWork")}>>,
     <<"EthSubmitHashRate", {N("xcb", "submitHashrate")}>>,
     <<"EthSyncing", {N("xcb", "syncing")}>>,
     <<"DebugTraceTransaction", {N("debug", "traceTransaction")}>>,
     <<"DebugTraceCall", {N("debug", "traceCall")}>>,
     <<"TraceTransaction", {N("trace", "transaction")}>>,
     <<"TraceBlock", {N("trace", "block")}>>,
     <<"ImpersonateAccount", {N("shuttle", "impersonateAccount"), N("hardhat", "impersonateAccount")}>>,
     <<"StopImpersonatingAccount", {N("shuttle", "stopImpersonatingAccount"), N("hardhat", "stopImpersonatingAccount")}>>,
     <<"AutoImpersonateAccount", {N("shuttle", "autoImpersonateAccount"), N("hardhat", "autoImpersonateAccount")}>>,
     <<"GetAutoMine", {N("shuttle", "getAutomine"), N("hardhat", "getAutomine")}>>,
     <<"Mine", {N("shuttle", "mine"), N("hardhat", "mine")}>>,
     <<"SetAutomine", {N("shuttle", "setAutomine"), N("evm", "setAutomine")}>>,
     <<"SetIntervalMining", {N("shuttle", "setIntervalMining"), N("evm", "setIntervalMining")}>>,
     <<"DropTransaction", {N("shuttle", "dropTransaction"), N("hardhat", "dropTransaction")}>>,
     <<"Reset", {N("shuttle", "reset"), N("hardhat", "reset")}>>,
     <<"SetRpcUrl", {N("shuttle", "setRpcUrl")}>>,
     <<"SetBalance", {N("shuttle", "setBalance"), N("hardhat", "setBalance")}>>,
     <<"SetCode", {N("shuttle", "setCode"), N("hardhat", "setCode")}>>,
     <<"SetNonce", {N("shuttle", "setNonce"), N("hardhat", "setNonce"), N("evm", "setAccountNonce")}>>,
     <<"SetStorageAt", {N("shuttle", "setStorageAt"), N("hardhat", "setStorageAt")}>>,
     <<"SetCoinbase", {N("shuttle", "setCoinbase"), N("hardhat", "setCoinbase")}>>,
     <<"SetLogging", {N("shuttle", "setLoggingEnabled"), N("hardhat", "setLoggingEnabled")}>>,
     <<"SetMinGasPrice", {N("shuttle", "setMinGasPrice"), N("hardhat", "setMinGasPrice")}>>,
     <<"EvmSetTime", {N("shuttle", "setTime"), N("evm", "setTime")}>>,
     <<"DumpState", {N("shuttle", "dumpState"), N("hardhat", "dumpState")}>>,
     <<"LoadState", {N("shuttle", "loadState"), N("hardhat", "loadState")}>>,
     <<"NodeInfo", {N("shuttle", "nodeInfo")}>>,
     <<"EvmSnapshot", {N("shuttle", "snapshot"), N("evm", "snapshot")}>>,
     <<"EvmRevert", {N("shuttle", "revert"), N("evm", "revert")}>>,
     <<"EvmIncreaseTime", {N("shuttle", "increaseTime"), N("evm", "increaseTime")}>>,
     <<"EvmSetNextBlockTimeStamp", {N("shuttle", "setNextBlockTimestamp"), N("evm", "setNextBlockTimestamp")}>>,
     <<"EvmSetBlockGasLimit", {N("shuttle", "setBlockGasLimit"), N("evm", "setBlockGasLimit")}>>,
     <<"EvmSetBlockTimeStampInterval", {N("shuttle", "setBlockTimestampInterval")}>>,
     <<"EvmRemoveBlockTimeStampInterval", {N("shuttle", "removeBlockTimestampInterval")}>>,
     <<"EvmMine", {N("evm", "mine")}>>,
     <<"EvmMineDetailed", {N("shuttle", "mine_detailed"), N("evm", "mine_detailed")}>>,
     <<"EthSendUnsignedTransaction", {N("xcb", "sendUnsignedTransaction")}>>,
     <<"EnableTraces", {N("shuttle", "enableTraces")}>>,
     <<"TxPoolStatus", {N("txpool", "status")}>>,
     <<"TxPoolInspect", {N("txpool", "inspect")}>>,
     <<"TxPoolContent", {N("txpool", "content")}>>}

\* the arms of the match in EthApi::execute: the variant, when the handler
\* is called, and the handler
Arms ==
    {<<"Web3ClientVersion", "always", "client_version">>,
     <<"Web3Sha3", "always", "sha3">>,
     <<"EthGetBalance", "always", "balance">>,
     <<"EthGetTransactionByHash", "always", "transaction_by_hash">>,
     <<"EthSendTransaction", "always", "send_transaction">>,
     <<"EthNetworkId", "always", "network_id">>,
     <<"NetListening", "always", "net_listening">>,
     <<"EthGasPrice", "always", "gas_price">>,
     <<"EthAccounts", "always", "accounts">>,
     <<"EthBlockNumber", "always", "block_number">>,
     <<"EthGetStorageAt", "always", "storage_at">>,
     <<"EthGetBlockByHash", "full", "block_by_hash_full">>,
     <<"EthGetBlockByHash", "brief", "block_by_hash">>,
     <<"EthGetBlockByNumber", "full", "block_by_number_full">>,
     <<"EthGetBlockByNumber", "brief", "block_by_number">>,
     <<"EthGetTransactionCount", "always", "transaction_count">>,
     <<"EthGetTransactionCountByHash", "always", "block_transaction_count_by_hash">>,
     <<"EthGetTransactionCountByNumber", "always", "block_transaction_count_by_number">>,
     <<"EthGetUnclesCountByHash", "always", "block_uncles_count_by_hash">>,
     <<"EthGetUnclesCountByNumber", "always", "block_uncles_count_by_number">>,
     <<"EthGetCodeAt", "always", "get_code">>,
     <<"EthGetProof", "always", "get_proof">>,
     <<"EthSign", "always", "sign">>,
     <<"EthSignTransaction", "always", "sign_transaction">>,
     <<"EthSignTypedData", "always", "sign_typed_data">>,
     <<"EthSignTypedDataV3", "always", "sign_typed_data_v3">>,
     <<"EthSignTypedDataV4", "always", "sign_typed_data_v4">>,
     <<"EthSendRawTransaction", "always", "send_raw_transaction">>,
     <<"EthCall", "always", "call">>,
     <<"EthEstimateGas", "always", "estimate_gas">>,
     <<"EthGetTransactionByBlockHashAndIndex", "always", "transaction_by_block_hash_and_index">>,
     <<"EthGetTransactionByBlockNumberAndIndex", "always", "transaction_by_block_number_and_index">>,
     <<"EthGetTransactionReceipt", "always", "transaction_receipt">>,
     <<"EthGetUncleByBlockHashAndIndex", "always", "uncle_by_block_hash_and_index">>,
     <<"EthGetUncleByBlockNumberAndIndex", "always", "uncle_by_block_number_and_index">>,
     <<"EthGetLogs", "always", "logs">>, <<"EthGetWork", "always", "work">>,
     <<"EthSyncing", "always", "syncing">>,
     <<"EthSubmitWork", "always", "submit_work">>,
     <<"EthSubmitHashRate", "always", "submit_hashrate">>,
     <<"DebugTraceTransaction", "always", "debug_trace_transaction">>,
     <<"DebugTraceCall", "always", "debug_trace_call">>,
     <<"TraceTransaction", "always", "trace_transaction">>,
     <<"TraceBlock", "always", "trace_block">>,
     <<"ImpersonateAccount", "always", "anvil_impersonate_account">>,
     <<"StopImpersonatingAccount", "always", "anvil_stop_impersonating_account">>,
     <<"AutoImpersonateAccount", "always", "anvil_auto_impersonate_account">>,
     <<"GetAutoMine", "always", "anvil_get_auto_mine">>,
     <<"Mine", "always", "anvil_mine">>,
     <<"SetAutomine", "always", "anvil_set_auto_mine">>,
     <<"SetIntervalMining", "always", "anvil_set_interval_mining">>,
     <<"DropTransaction", "always", "anvil_drop_transaction">>,
     <<"Reset", "always", "anvil_reset">>,
     <<"SetBalance", "always", "anvil_set_balance">>,
     <<"SetCode", "always", "anvil_set_code">>,
     <<"SetNonce", "always", "anvil_set_nonce">>,
     <<"SetStorageAt", "always", "anvil_set_storage_at">>,
     <<"SetCoinbase", "always", "anvil_set_coinbase">>,
     <<"SetLogging", "always", "anvil_set_logging">>,
     <<"SetMinGasPrice", "always", "anvil_set_min_gas_price">>,
     <<"DumpState", "always", "anvil_dump_state">>,
     <<"LoadState", "always", "anvil_load_state">>,
     <<"NodeInfo", "always", "anvil_node_info">>,
     <<"EvmSnapshot", "always", "evm_snapshot">>,
     <<"EvmRevert", "always", "evm_revert">>,
     <<"EvmIncreaseTime", "always", "evm_increase_time">>,
     <<"EvmSetNextBlockTimeStamp", "fits", "evm_set_next_block_timestamp">>,
     <<"EvmSetTime", "fits", "evm_set_time">>,
     <<"EvmSetBlockGasLimit", "always", "evm_set_block_gas_limit">>,
     <<"EvmSetBlockTimeStampInterval", "always", "evm_set_block_timestamp_interval">>,
     <<"EvmRemoveBlockTimeStampInterval", "always", "evm_remove_block_timestamp_interval">>,
     <<"EvmMine", "always", "evm_mine">>,
     <<"EvmMineDetailed", "always", "evm_mine_detailed">>,
     <<"SetRpcUrl", "always", "anvil_set_rpc_url">>,
     <<"EthSendUnsignedTransaction", "always", "eth_send_unsigned_transaction">>,
     <<"EnableTraces", "always", "anvil_enable_traces">>,
     <<"EthNewFilter", "always", "new_filter">>,
     <<"EthGetFilterChanges", "always", "get_filter_changes">>,
     <<"EthNewBlockFilter", "always", "new_block_filter">>,
     <<"EthNewPendingTransactionFilter", "always", "new_pending_transaction_filter">>,
     <<"EthGetFilterLogs", "always", "get_filter_logs">>,
     <<"EthUninstallFilter", "always", "uninstall_filter">>,
     <<"TxPoolStatus", "always", "txpool_status">>,
     <<"TxPoolInspect", "always", "txpool_inspect">>,
     <<"TxPoolContent", "always", "txpool_content">>}

\* serde: the variants that bear the name
deserialize(name) == {v[1] : v \in {e \in EthRequest : name \in e[2]}}

\* a request: its variant, the flag of a block request and whether its
\* number fits into 64 bits
Request(variant, full, fits) == [variant |-> variant, full |-> full, fits |-> fits]

\* EthApi::execute: the handlers the request is handed to
execute(request) ==
    {arm[3] : arm \in {a \in Arms :
        /\ a[1] = request.variant
        /\ \/ a[2] = "always"
           \/ a[2] = "full" /\ request.full
           \/ a[2] = "brief" /\ ~request.full
           \/ a[2] = "fits" /\ request.fits}}

\* a call of a method of the interface, from the wire to the handler
dispatch(method, full, fits) ==
    LET variants == deserialize(Wire(method))
        handlers == UNION {execute(Request(v, full, fits)) : v \in variants}
    IN  [op |-> "execute", method |-> method, full |-> full, fits |-> fits,
         variants |-> variants, handlers |-> handlers,
         err |-> IF variants = {} THEN "MethodNotFound"
                 ELSE IF handlers = {} THEN "UintConversion" ELSE ""]

DispatchCall ==
    \E method \in Methods, full \in BOOLEAN, fits \in BOOLEAN :
        /\ result' = dispatch(method, full, fits)
        /\ UNCHANGED est
        /\ EstimateUnchanged

NextDispatch == DispatchCall

SpecDispatch == InitFees /\ [][NextDispatch]_vars

(***************************************************************************)
(* SpecClock: the time handlers are called in any order while the wall     *)
(* clock runs and blocks are mined; the time manager takes a timestamp for *)
(* the next block only when it lies after the last block.                  *)
(***************************************************************************)
ClockTick == clock < MaxClock /\ tick

ClockIncreaseTime ==
    \E seconds \in 1..MaxTimestamp :
        time.offset + seconds <= MaxTimestamp /\ evm_increase_time(seconds)

ClockSetTime == \E timestamp \in 0..MaxTimestamp : evm_set_time(timestamp)

ClockSetNextBlockTimestamp ==
    \E seconds \in 0..(MaxTimestamp + 1) :
        /\ evm_set_next_block_timestamp(seconds)
        /\ result'.ret = "Ok" => seconds > last_timestamp(blocks)

ClockSetInterval ==
    \E seconds \in 0..MaxInterval : evm_set_block_timestamp_interval(seconds)

ClockRemoveInterval == evm_remove_block_timestamp_interval

ClockMine == Len(blocks) < MaxChain /\ evm_mine(<<>>)

NextClock ==
    \/ ClockTick
    \/ ClockIncreaseTime
    \/ ClockSetTime
    \/ ClockSetNextBlockTimestamp
    \/ ClockSetInterval
    \/ ClockRemoveInterval
    \/ ClockMine

SpecClock == InitFees /\ [][NextClock]_vars

(***************************************************************************)
(* SpecMiners: the dev account submits transfers while two callers run     *)
(* mine_one step by step, side by side, and receipts are asked for.        *)
(***************************************************************************)
MinersRequests == RequestsOf({"B"}, 0..1, {1})

\* the hashes of the transactions the pool or a block holds
MinersHashes ==
    {Pending(t) : t \in Range(pool)}
        \cup UNION {Range(blocks[n].transactions) : n \in 1..Len(blocks)}

MinersSend ==
    \E request \in MinersRequests :
        send_transaction(request) /\ Len(pool') <= MaxPool
MinersReady == \E c \in Callers : mine_one_ready(c)
MinersMineBlock ==
    \E c \in Callers : Len(blocks) < MaxChain /\ mine_one_mine_block(c)
MinersOnMinedBlock == \E c \in Callers : mine_one_on_mined_block(c)
MinersReceipt == \E hash \in MinersHashes : transaction_receipt(hash)

NextMiners ==
    \/ MinersSend
    \/ MinersReady
    \/ MinersMineBlock
    \/ MinersOnMinedBlock
    \/ MinersReceipt

SpecMiners == InitFees /\ [][NextMiners]_vars

(***************************************************************************)
(* SpecSenders: two callers send one transaction each through              *)
(* eth_sendTransaction, step by step, side by side.                        *)
(***************************************************************************)
SendersRequests ==
    [gas_price : Prices, gas : {MIN_TRANSACTION_GAS}, value : {0}]
        \cup [from : {"B"}, gas_price : Prices, gas : {MIN_TRANSACTION_GAS},
              value : {0}]
        \cup [from : {"B"}, nonce : 0..1, gas_price : Prices,
              gas : {MIN_TRANSACTION_GAS}, value : {0}]

SendersRequestNonce ==
    \E c \in Callers, request \in SendersRequests :
        calls[c].pc = "idle" /\ send_transaction_request_nonce(c, request)
SendersValidate == \E c \in Callers : send_transaction_validate(c)
SendersAdd == \E c \in Callers : send_transaction_add(c)

NextSenders ==
    \/ SendersRequestNonce
    \/ SendersValidate
    \/ SendersAdd

SpecSenders == InitFees /\ [][NextSenders]_vars

(***************************************************************************)
(* SpecDetailed: a caller runs evm_mine_detailed while another runs        *)
(* mine_one and the wall clock goes on.                                    *)
(***************************************************************************)
DetailedOptions == MineOptions(1..MaxMine, {})

DetailedMine ==
    \E c \in Callers, opts \in DetailedOptions :
        /\ Len(blocks) + blocks_to_mine(opts) <= MaxChain + 1
        /\ evm_mine_detailed_mine(c, opts)
DetailedCollect == \E c \in Callers : evm_mine_detailed_collect(c)
DetailedReady == \E c \in Callers : mine_one_ready(c)
DetailedMineBlock ==
    \E c \in Callers : Len(blocks) <= MaxChain /\ mine_one_mine_block(c)
DetailedOnMinedBlock == \E c \in Callers : mine_one_on_mined_block(c)
DetailedTick == clock < MaxClock /\ tick

NextDetailed ==
    \/ DetailedMine
    \/ DetailedCollect
    \/ DetailedReady
    \/ DetailedMineBlock
    \/ DetailedOnMinedBlock
    \/ DetailedTick

SpecDetailed == InitFees /\ [][NextDetailed]_vars

(***************************************************************************)
(* Properties.                                                             *)
(***************************************************************************)
\* the handlers that submit a transaction
SendOps ==
    {"eth_sendTransaction", "eth_sendRawTransaction", "eth_sendUnsignedTransaction"}

\* the transaction the pool took last
Newest(p) == p[Len(p)]

\* the pool holds exactly the three transactions of the dev account with the
\* nonces n, n+1 and n+2, n the committed nonce, and no block was mined yet
GapFilled ==
    /\ blocks = <<>>
    /\ Len(pool) = 3
    /\ \A i \in 1..Len(pool) : pool[i].sender = "B"
    /\ {pool[i].nonce : i \in 1..Len(pool)}
           = {current_nonce("B") + k : k \in 0..2}

\* C1: nonce-gap queueing.  When the transactions with the nonces n, n+1 and
\* n+2 of a sender with committed nonce n were submitted, in any order, to an
\* otherwise empty pool, one evm_mine puts all three into the one block it
\* mines, by ascending nonce, and leaves none of them in the pool.
NonceGapQueueing ==
    [][(GapFilled /\ result'.op = "evm_mine" /\ blocks' # blocks) =>
          /\ Len(blocks') = 1
          /\ [i \in 1..Len(blocks'[1].transactions) |->
                 blocks'[1].transactions[i].nonce]
                 = [k \in 1..3 |-> current_nonce("B") + k - 1]
          /\ pool' = <<>>]_vars

\* C2: every transaction in the pool provides exactly its own (sender, nonce)
\* marker and requires at most one marker.
MarkersWellFormed ==
    \A i \in 1..Len(pool) :
        /\ pool[i].provides = <<<<pool[i].sender, pool[i].nonce>>>>
        /\ Len(pool[i].requires) <= 1

\* the pool holds transactions of all three handlers' making: one that
\* waits for its predecessor and one with the bypass signature
PoolHoldsQueuedAndUnsigned ==
    /\ \E i \in 1..Len(pool) : Len(pool[i].requires) = 1
    /\ \E i \in 1..Len(pool) : pool[i].signature = "bypass"

\* C3: an accepted transaction requires nothing exactly when its nonce is
\* the sender's committed nonce at submission, and requires exactly the
\* marker (sender, nonce - 1) otherwise, whatever the pool holds.
RequiresFollowCommittedNonce ==
    [][(result'.op \in SendOps /\ result'.ret = "Ok" /\ pool' # pool) =>
          LET t == Newest(pool')
          IN  t.requires = IF t.nonce = db[t.sender].nonce
                           THEN <<>>
                           ELSE <<<<t.sender, t.nonce - 1>>>>]_vars

\* whether executing the request of the search with the gas succeeds
SucceedsAt(request, gas) ==
    LET res == call_with_state(db, with_gas(request, gas), gas_limit)
    IN  res.err = "" /\ res.exit = "Ok"

\* the gas is the smallest one from the base gas on at which the execution
\* succeeds; execution needs at least a fixed amount, so it is enough that
\* it fails with one gas less
SmallestSuccess(request, gas) ==
    /\ gas >= determine_base_gas_by_kind(request)
    /\ gas <= gas_limit
    /\ SucceedsAt(request, gas)
    /\ gas > determine_base_gas_by_kind(request) => ~SucceedsAt(request, gas - 1)

\* the least gas from the base gas on that may do for the request
LeastGas(request) ==
    IF gas_needed(request, db) >= determine_base_gas_by_kind(request)
    THEN gas_needed(request, db)
    ELSE determine_base_gas_by_kind(request)

\* C4: gas estimation minimality.  When the execution of the request succeeds
\* at some gas between the base gas of its kind and the block gas limit,
\* eth_estimateGas returns the smallest such gas.
EstimateIsMinimal ==
    [][(est' # est /\ est'.pc = "done"
            /\ LeastGas(est'.request) <= gas_limit
            /\ SucceedsAt(est'.request, LeastGas(est'.request))) =>
          /\ result'.err = ""
          /\ SmallestSuccess(est'.request, result'.ret)]_vars

\* C5: the snapshot law.  A successful evm_revert(id) leaves the account
\* table, the storage table, the time controller and the pool as they were
\* when the snapshot was taken.
SnapshotLaw ==
    [][(result'.op = "evm_revert" /\ result'.ret /\ snapshots' # snapshots) =>
          /\ db' = snapshots[result'.id].state
          /\ time' = snapshots[result'.id].time
          /\ pool' = snapshots[result'.id].pool]_vars

\* C6: evm_revert(id) returns true exactly when the snapshot exists; it then
\* removes the snapshot and every later one; a revert that returns false
\* changes nothing.
RevertConsumesSnapshots ==
    [][result'.op = "evm_revert" =>
          LET id == result'.id
          IN  /\ result'.ret = (id \in DOMAIN snapshots)
              /\ id \in DOMAIN snapshots =>
                     DOMAIN snapshots' = {j \in DOMAIN snapshots : j < id}
              /\ id \notin DOMAIN snapshots =>
                     UNCHANGED <<pool, db, blocks, time, snapshots,
                                 next_snapshot_id>>]_vars

\* the first of several snapshots was reverted to and none is left, and the
\* revert is now refused
RevertedThenRefused ==
    /\ result.op = "evm_revert"
    /\ ~result.ret
    /\ result.id = 0
    /\ next_snapshot_id >= 2
    /\ snapshots = EmptyMap

\* the hashes of the blocks committed after the first `from` ones
HashesSince(from) ==
    [i \in 1..(Len(blocks) - from) |-> blocks[from + i].hash]

\* C7: block-filter delta.  eth_newBlockFilter installs a block filter that
\* has nothing to deliver yet, and every eth_getFilterChanges on a block
\* filter returns exactly the hashes of the blocks committed since the
\* filter was installed or last polled, in commit order.
BlockFilterDelta ==
    [][/\ (result'.op = "eth_newBlockFilter"
              /\ next_filter_id' = next_filter_id + 1) =>
              /\ result'.ret \in DOMAIN filters'
              /\ filters'[result'.ret] =
                     [kind |-> "Blocks", queue |-> <<>>, cursor |-> Len(blocks)]
       /\ (result'.op = "eth_getFilterChanges"
              /\ DOMAIN filters' = DOMAIN filters
              /\ result'.id \in DOMAIN filters
              /\ filters[result'.id].kind = "Blocks") =>
              /\ result'.ret = HashesSince(filters[result'.id].cursor)
              /\ filters'[result'.id].cursor = Len(blocks)
              /\ filters'[result'.id].queue = <<>>]_vars

\* a block filter just delivered the hashes of two blocks
DeltaOfTwoBlocks ==
    /\ result.op = "eth_getFilterChanges"
    /\ result.id \in DOMAIN filters
    /\ filters[result.id].kind = "Blocks"
    /\ Len(result.ret) = 2

\* the step is the return of a call of the handler; a step of the registry
\* itself leaves the last response as it is
Returned(op) == result'.op = op /\ (result.op = op => result' # result)

\* C8: eth_uninstallFilter(id) returns true exactly when the filter is
\* installed and leaves no filter with the id, and eth_getFilterLogs of an
\* id that is not installed returns the empty list.
UninstallRemovesFilter ==
    [][/\ Returned("eth_uninstallFilter") =>
              /\ result'.ret = (result'.id \in DOMAIN filters)
              /\ DOMAIN filters' = DOMAIN filters \ {result'.id}
       /\ (Returned("eth_getFilterLogs") /\ result'.id \notin DOMAIN filters) =>
              result'.ret = <<>>]_vars

\* a filter that had been installed is gone and uninstalling it is refused
UninstalledTwice ==
    /\ result.op = "eth_uninstallFilter"
    /\ ~result.ret
    /\ result.id < next_filter_id
    /\ result.id \notin DOMAIN filters

\* C9 as stated: eth_sendTransaction from "A", which no signer holds, is
\* accepted exactly when "A" is impersonated and returns NoSignerAvailable
\* otherwise.
AcceptedIffImpersonated ==
    [][(result'.op = "eth_sendTransaction" /\ result'.from = "A") =>
          /\ (result'.ret = "Ok") <=> is_impersonated("A")
          /\ ~is_impersonated("A") => result'.ret = "NoSignerAvailable"]_vars

\* C9 as amended: eth_sendTransaction from "A" returns NoSignerAvailable
\* exactly when "A" is not impersonated; when "A" is impersonated the
\* transfer is accepted exactly when the balance of "A" covers its cost, and
\* an accepted one enters the pool with sender "A" and the bypass signature.
ImpersonatedSendsUnsigned ==
    [][(result'.op = "eth_sendTransaction" /\ result'.from = "A") =>
          /\ (result'.ret = "NoSignerAvailable") <=> ~is_impersonated("A")
          /\ is_impersonated("A") =>
                 ((result'.ret = "Ok") <=> db["A"].balance >= MIN_TRANSACTION_GAS)
          /\ result'.ret = "Ok" =>
                 /\ pool' = Append(pool, Newest(pool'))
                 /\ Newest(pool').sender = "A"
                 /\ Newest(pool').signature = "bypass"]_vars

\* a transfer of "A" sits in the pool with the bypass signature, "A" is no
\* longer impersonated and its next transfer was refused
RefusedAfterStop ==
    /\ result.op = "eth_sendTransaction"
    /\ result.from = "A"
    /\ result.ret = "NoSignerAvailable"
    /\ \E i \in 1..Len(pool) : pool[i].sender = "A" /\ pool[i].signature = "bypass"

\* the calls that mine on request
MineOps == {"evm_mine", "evm_mine_detailed", "anvil_mine"}

\* C10: evm_setAutomine(false) in the instant mode and
\* evm_setIntervalMining(0) leave the mode None, and in the mode None the
\* chain grows only in a step of evm_mine, evm_mine_detailed or anvil_mine:
\* no transaction that enters the pool and no second that passes mines.
NoneMinesOnRequestOnly ==
    [][/\ (result'.op = "evm_setAutomine" /\ ~result'.arg
              /\ mining_mode.kind = "Auto") => mining_mode'.kind = "None"
       /\ (result'.op = "evm_setIntervalMining" /\ result'.arg = 0) =>
              mining_mode'.kind = "None"
       /\ (mining_mode.kind = "None" /\ blocks' # blocks) =>
              /\ result'.op \in MineOps
              /\ mining_mode' = mining_mode
              /\ clock' = clock]_vars

\* the instant mode was switched off, a transfer waits in the pool, the
\* clock ran out, and no block was mined
NoneLeavesPoolWaiting ==
    /\ mining_mode.kind = "None"
    /\ pool # <<>>
    /\ clock = MaxClock
    /\ blocks = <<>>

(***************************************************************************)
(* C11.  In the instant mode every transaction that becomes ready is       *)
(* eventually included in a block, or dropped or replaced, with no request *)
(* to mine, as long as the miner's task is scheduled fairly.               *)
(***************************************************************************)
InPool(hash) == \E i \in 1..Len(pool) : Pending(pool[i]) = hash

IsReady(hash) ==
    LET ready == ready_transactions(pool, db)
    IN  \E i \in 1..Len(ready) : Pending(ready[i]) = hash

\* C11: a transaction the pool holds as ready leaves the pool in the end
ReadyIsMined == \A hash \in AutoPendings : IsReady(hash) ~> ~InPool(hash)

(***************************************************************************)
(* C12.  After evm_setIntervalMining(d), d > 0, and with no request to     *)
(* mine, one block is committed per d seconds whatever the pool holds.     *)
(***************************************************************************)
\* the block the miner owes for the second that just passed
Due == IF mining_mode.elapsed >= mining_mode.secs THEN 1 ELSE 0

Asked(r) == IF r.blocks = <<>> THEN 1 ELSE r.blocks[1]

\* the chain grew by n blocks and the mode stayed
Grew(n) ==
    /\ Len(blocks') = Len(blocks) + n
    /\ SubSeq(blocks', 1, Len(blocks)) = blocks
    /\ mining_mode' = mining_mode

\* C13 as stated: every evm_mine commits the blocks asked for and returns
\* "0x0".
EvmMineCommits ==
    [][Returned("evm_mine") =>
           /\ result'.ret = "0x0"
           /\ Grew(Asked(result'))]_vars

\* C13, amended: evm_mine returns "0x0" after it committed the blocks asked
\* for, the first of them at the timestamp the options give; or the time
\* manager refused the timestamp of the options, and then evm_mine returns
\* that error and commits nothing.
EvmMineCommitsOrRefuses ==
    [][Returned("evm_mine") =>
           IF result'.ret = "0x0"
           THEN /\ Grew(Asked(result'))
                /\ (result'.timestamp # <<>> /\ Asked(result') > 0) =>
                       blocks'[Len(blocks) + 1].timestamp = result'.timestamp[1]
           ELSE /\ result'.timestamp # <<>>
                /\ Grew(0)
                /\ pool' = pool
                /\ time' = time]_vars

\* outside the mode None, evm_mine with two blocks and a timestamp
\* committed them, the first with a transfer and at the timestamp
EvmMineTwoAtTimestamp ==
    /\ result.op = "evm_mine"
    /\ result.ret = "0x0"
    /\ result.blocks = <<2>>
    /\ result.timestamp # <<>>
    /\ mining_mode.kind # "None"
    /\ Len(blocks) = 2
    /\ blocks[1].timestamp = result.timestamp[1]
    /\ blocks[1].transactions # <<>>

(***************************************************************************)
(* C14.  evm_mine_detailed(opts) completes for every pool content and      *)
(* returns the mined blocks, one entry per block in ascending order, also  *)
(* when a receipt carries the output of its execution.                     *)
(***************************************************************************)
\* C14: evm_mine_detailed does not fail while it builds its response, and
\* once the timestamp is taken it returns the blocks it committed, in
\* ascending order.
EvmMineDetailedCompletes ==
    [][Returned("evm_mine_detailed") =>
           /\ result'.ret # "panic"
           /\ result'.ret = "Ok" =>
                  /\ Grew(Asked(result'))
                  /\ result'.detailed =
                         SubSeq(blocks', Len(blocks) + 1, Len(blocks'))]_vars

(***************************************************************************)
(* C19.  anvil_mine(blocks, interval) commits exactly `blocks` blocks,     *)
(* one when `blocks` is left out and none when it is 0, in every mode and  *)
(* whatever the pool holds, and returns success.                           *)
(***************************************************************************)
\* C19: every anvil_mine returns Ok after it committed num_blocks blocks,
\* one when num_blocks is left out, each `interval` seconds after the one
\* before.
AnvilMineCommits ==
    [][Returned("anvil_mine") =>
           LET n == IF result'.num_blocks = <<>> THEN 1 ELSE result'.num_blocks[1]
               secs == IF result'.interval = <<>> THEN 0 ELSE result'.interval[1]
           IN  /\ result'.ret = "Ok"
               /\ Len(blocks') = Len(blocks) + n
               /\ SubSeq(blocks', 1, Len(blocks)) = blocks
               /\ mining_mode'.kind = mining_mode.kind
               /\ clock' = clock + n * secs]_vars

\* outside the mode None, anvil_mine committed two blocks a second apart,
\* the first with a transfer
AnvilMineTwoBlocks ==
    /\ result.op = "anvil_mine"
    /\ result.num_blocks = <<2>>
    /\ result.interval = <<1>>
    /\ mining_mode.kind # "None"
    /\ Len(blocks) = 2
    /\ blocks[2].timestamp = blocks[1].timestamp + 1
    /\ blocks[1].transactions # <<>>

RECURSIVE ChainTransactions(_, _, _)
ChainTransactions(chain, from, to) ==
    IF from > to THEN <<>>
    ELSE chain[from].transactions \o ChainTransactions(chain, from + 1, to)

\* the nonces of the sender in the transactions, in their order
NoncesOf(sender, txs) ==
    LET own == SelectSeq(txs, LAMBDA tx : tx.sender = sender)
    IN  [i \in 1..Len(own) |-> own[i].nonce]

\* the nonces start, start + 1, ... without gap or repeat
Contiguous(nonces, start) == \A i \in 1..Len(nonces) : nonces[i] = start + i - 1

MayDelegate(op, n) ==
    IF op \in {"eth_getProof", "eth_getUncleByBlockNumberAndIndex"}
    THEN predates_fork_inclusive(n)
    ELSE predates_fork(n)

\* C17: in fork mode with pin p, a balance, nonce, code, storage, eth_call or
\* eth_estimateGas query at a numbered block n goes to the remote endpoint
\* exactly when n < p, a proof or uncle query exactly when n <= p, and a
\* query at the pending block never
DelegatedExactlyBelowPin ==
    get_fork =>
        \A r \in Readers :
            /\ fork.waiting[r] # <<>> =>
                  /\ ~fork.waiting[r][3]
                  /\ MayDelegate(fork.waiting[r][1], fork.waiting[r][2][4])
            /\ fork.got[r].op # "none" =>
                  (fork.got[r].served = "remote"
                      <=> /\ ~fork.got[r].pending
                          /\ MayDelegate(fork.got[r].op, fork.got[r].key[4]))

\* the responses two readers hold are answers to the same read at a
\* numbered block
SameRead(r, s) ==
    /\ fork.got[r].op # "none"
    /\ fork.got[s].op # "none"
    /\ ~fork.got[r].pending
    /\ ~fork.got[s].pending
    /\ fork.got[r].key = fork.got[s].key

\* no key was asked of the remote endpoint twice
OneCallPerKey ==
    \A i, j \in 1..Len(fork.calls) : fork.calls[i] = fork.calls[j] => i = j

ResetWithoutForkingDisables ==
    result.op = "anvil_reset" =>
        (~result.forking => result.ret = "Ok" /\ ~get_fork)

\* C21: anvil_getAutomine after evm_setAutomine(b) returns b, whatever the
\* mining mode was before, and evm_setAutomine(true) in the instant mode
\* leaves the miner as it is: the same mode over the same ready listener
SetAutomineThenGet ==
    [][/\ (result.op = "evm_setAutomine" /\ result'.op = "anvil_getAutomine")
              => result'.ret = result.arg
       /\ result'.op = "evm_setAutomine" => (is_auto_mine' <=> result'.arg)
       /\ (result'.op = "evm_setAutomine" /\ result'.arg /\ is_auto_mine
              /\ blocks' = blocks) => mining_mode' = mining_mode]_vars

\* evm_setAutomine(true) was the last call, and the listener of the instant
\* miner still holds the signal of a transaction sent before it
SetAutomineKeptListener ==
    /\ result.op = "evm_setAutomine"
    /\ result.arg
    /\ mining_mode = [ModeAuto EXCEPT !.signalled = TRUE]
    /\ pool # <<>>

\* C22: when eth_sendTransaction, eth_sendRawTransaction or
\* eth_sendUnsignedTransaction returns an error, the pool and the chain
\* state are what they were before the call
ErrorLeavesPoolAndChain ==
    [][(result'.op \in SendOps /\ result'.ret # "Ok")
          => /\ pool' = pool
             /\ db' = db
             /\ blocks' = blocks]_vars

\* a raw transaction was refused for its nonce while another transaction
\* waits in the pool on top of a mined block
RefusedBesideWaiting ==
    /\ result.op = "eth_sendRawTransaction"
    /\ result.ret = "NonceTooLow"
    /\ pool # <<>>
    /\ blocks # <<>>

\* no two transactions of the pool provide the same marker
UniqueMarkers ==
    \A i, j \in 1..Len(pool) : pool[i].provides = pool[j].provides => i = j

\* the pooled transactions that provide the marker of the transaction the
\* pool took in this step
Clashing == {i \in 1..Len(pool) : pool[i].provides = pool'[Len(pool')].provides}

\* C23: the pool holds at most one transaction per (sender, nonce) marker;
\* a transaction whose marker is already provided is taken only with a
\* higher priority, in place of the one that was there, and a refused
\* transaction leaves the pool as it was
OneTransactionPerMarker ==
    /\ []UniqueMarkers
    /\ [][/\ (result'.op \in SendOps /\ result'.ret = "Ok") =>
                \A i \in Clashing :
                    /\ pool[i] \notin Range(pool')
                    /\ pool[i].priority.kind = "Fees"
                    /\ pool'[Len(pool')].priority.v > pool[i].priority.v
          /\ (result'.op \in SendOps /\ result'.ret = "ReplacementUnderpriced")
                => pool' = pool]_vars

\* a transaction was refused for its marker while the pool holds two
\* transactions ordered by fees
UnderpricedRefused ==
    /\ result.ret = "ReplacementUnderpriced"
    /\ transaction_order = "Fees"
    /\ Len(pool) = 2

\* s is t with some elements left out, the others in their order
RECURSIVE IsSubsequence(_, _)
IsSubsequence(s, t) ==
    IF s = <<>> THEN TRUE
    ELSE IF t = <<>> THEN FALSE
    ELSE IF Head(s) = Head(t) THEN IsSubsequence(Tail(s), Tail(t))
    ELSE IsSubsequence(s, Tail(t))

\* the transactions mine_one collected, as a block keeps them
Collected ==
    [i \in 1..Len(miner_task.transactions) |-> Pending(miner_task.transactions[i])]

\* C24: the transactions of a committed block are, in the same order, among
\* the ready transactions mine_one collected at its snapshot; a transaction
\* the pool took after the snapshot is not in the block and is still in the
\* pool after it
BlockFromSnapshot ==
    [][(miner_task.pc = "mining" /\ miner_task'.pc = "idle") =>
          /\ Len(blocks') = Len(blocks) + 1
          /\ IsSubsequence(blocks'[Len(blocks')].transactions, Collected)
          /\ \A i \in 1..Len(pool) :
                Pending(pool[i]) \notin Range(Collected) =>
                    /\ Pending(pool[i]) \notin
                           Range(blocks'[Len(blocks')].transactions)
                    /\ pool[i] \in Range(pool')]_vars

\* the first block holds the transaction collected at the snapshot, and the
\* pool holds the one that took its place in the pool before the block was
\* committed
LateTransactionWaits ==
    /\ miner_task.pc = "idle"
    /\ Len(blocks) = 1
    /\ blocks[1].transactions = Collected
    /\ Len(blocks[1].transactions) = 1
    /\ \E i \in 1..Len(pool) :
          /\ pool[i].provides = miner_task.transactions[1].provides
          /\ Pending(pool[i]) \notin Range(Collected)

\* the step on which eth_estimateGas arrives: the response is there, or the
\* binary search has begun
EstimateArrives ==
    /\ est.pc # "search"
    /\ est'.pc = "search" \/ result'.op = "eth_estimateGas"
    /\ est' # est \/ result' # result

\* C25: eth_estimateGas answers MIN_TRANSACTION_GAS at once, nothing being
\* executed, whenever the data of the request is absent or empty and `to`
\* is an account without code, whatever the balance of the sender, the
\* value and the gas asked for.
TransferEstimate ==
    [][(/\ EstimateArrives
        /\ Has(est'.request, "to")
        /\ likely_transfer(est'.request)
        /\ db[est'.request.to].code = "")
          => /\ result' = [op |-> "eth_estimateGas", err |-> "",
                           ret |-> MIN_TRANSACTION_GAS]
             /\ est'.pc = "done"
             /\ est'.exit = ""]_vars

\* the transfer of more than the sender has, with less gas than a transfer
\* takes, is estimated at MIN_TRANSACTION_GAS
TransferOfThePoor ==
    /\ est.pc = "done"
    /\ est.exit = ""
    /\ result = [op |-> "eth_estimateGas", err |-> "", ret |-> MIN_TRANSACTION_GAS]
    /\ ~Has(est.request, "data")
    /\ Has(est.request, "from") /\ Has(est.request, "value")
    /\ Has(est.request, "gas") /\ Has(est.request, "gas_price")
    /\ est.request.value > db[est.request.from].balance
    /\ est.request.gas < MIN_TRANSACTION_GAS

\* the exit reasons that are neither a success nor a revert
Halts == {"OutOfEnergy", "OutOfFund", "InvalidFEOpcode"}

\* C26: when the first execution of eth_estimateGas ends in an exit reason
\* that is neither a success nor a revert, out of gas or out of funds for
\* example, the response is EvmError and no binary search is made.
FirstFailureIsEvmError ==
    [][(EstimateArrives /\ est'.exit \in Halts)
          => /\ est'.pc = "done"
             /\ result'.op = "eth_estimateGas"
             /\ result'.err = "EvmError"]_vars

\* the binary search has answered Ok: the search is left as it ended
Answered ==
    /\ est.pc = "done"
    /\ est.observed # {}
    /\ result.op = "eth_estimateGas"
    /\ result.err = ""

\* C27: the binary search of eth_estimateGas comes to an end however the
\* executions end, and when it answers Ok(G) the highest and the lowest gas
\* limit are at most one apart and G is a gas limit at which an execution
\* of the request was seen to succeed.
BinarySearchEnds ==
    (est.pc = "search")
        ~> (/\ est.pc = "done"
            /\ Answered => /\ est.highest >= est.lowest
                           /\ est.highest - est.lowest <= 1
                           /\ result.ret = est.highest
                           /\ result.ret \in est.observed)

\* a search narrowed from both sides has answered
NarrowedFromBothSides ==
    /\ Answered
    /\ est.highest - est.lowest = 1
    /\ est.lowest > MIN_TRANSACTION_GAS
    /\ est.highest < SearchGasLimit

\* every marker a ready transaction requires is provided by the chain or by
\* a transaction yielded before it
RequiresProvided ==
    LET ready == ready_transactions(pool, db)
    IN  \A i \in 1..Len(ready) :
            \A k \in 1..Len(ready[i].requires) :
                \/ OnChain(ready[i].requires[k], db)
                \/ \E j \in 1..(i - 1) :
                       ready[i].requires[k] \in Range(ready[j].provides)

\* C28: after any submissions, drops and mined blocks every transaction
\* that ready_transactions yields has its required markers provided by the
\* chain or by transactions yielded before it, and once a ready transaction
\* is dropped no transaction of its sender with a higher nonce is reported
\* ready.
DroppedReadyHoldsBack ==
    /\ []RequiresProvided
    /\ [][(result'.op = "anvil_dropTransaction" /\ pool' # pool /\ blocks' = blocks)
            => \A i \in 1..Len(pool) :
                   (/\ pool[i] \notin Range(pool')
                    /\ pool[i] \in Range(ready_transactions(pool, db)))
                      => \A t \in Range(ready_transactions(pool', db')) :
                             ~(t.sender = pool[i].sender /\ t.nonce > pool[i].nonce)]_vars

\* the keys, sender and nonce, of the transactions
Keys(txs) == {<<txs[i].sender, txs[i].nonce>> : i \in 1..Len(txs)}

\* C29: txpool_inspect and txpool_content report the ready transactions
\* under `pending` and the transactions out of nonce sequence under
\* `queued`, by sender and nonce: the two maps share no key and hold the
\* whole pool between them.
QueuedReportedAsQueued ==
    result.op \in {"txpool_inspect", "txpool_content"}
        => /\ DOMAIN result.pending = Keys(ready_transactions(pool, db))
           /\ DOMAIN result.queued = Keys(pending_transactions(pool, db))
           /\ DOMAIN result.pending \cap DOMAIN result.queued = {}
           /\ DOMAIN result.pending \cup DOMAIN result.queued = Keys(pool)

\* C30: evm_setTime(t) sets the time of the node to t and returns the
\* seconds from the time read just before to t.
SetTimeReturnsSeconds ==
    [][(result'.op = "evm_setTime" /\ clock' = clock /\ time' # time)
          => LET now == clock + time.offset
                 timestamp == clock' + time'.offset
             IN  result'.ret = saturating_sub(timestamp, now)]_vars

(***************************************************************************)
(* Claims C31 to C39.                                                      *)
(***************************************************************************)
\* C39: the assertion requires != provides of eth_sendTransaction holds for
\* every nonce and on-chain nonce: required_marker never returns the marker
\* of the transaction itself, nonce 0 and nonces below the on-chain nonce
\* included.
RequiresDifferFromProvides ==
    result.op = "required_marker"
        => /\ result.requires # result.provides
           /\ \A k \in 1..Len(result.requires) :
                  result.requires[k] # result.provides[1]

\* nonce 0 below the on-chain nonce: the nonce before saturates to 0 and
\* nothing is required
SaturatedBelowChain ==
    /\ result.op = "required_marker"
    /\ result.nonce = 0
    /\ result.on_chain_nonce > 0
    /\ result.requires = <<>>

\* the midpoint lies between the lowest and the highest gas limit
MidInRange ==
    est.pc = "search" => est.lowest <= est.mid /\ est.mid <= est.highest

\* the subtraction highest - lowest has not overflowed
NoOverflow == result.op = "eth_estimateGas" => result.err # "panic"

NoBlock == result.op = "environment" /\ result.block = "None"

\* C32 as stated: the initialisation of a fork fails whenever the remote
\* returns no block for the block number, and the diagnostic of a
\* non-archive node is emitted exactly when the block number is not above
\* the remote's latest block number.
DiagnosticWheneverNotAbove ==
    NoBlock => /\ result.err # "" /\ result.env = <<>>
               /\ result.warned <=> result.block_number[1] <= result.head

\* C32, amended: the initialisation of a fork fails whenever the remote
\* returns no block for the block number, without an environment, and the
\* diagnostic of a non-archive node is emitted exactly when the remote then
\* answers the request for its latest block number and the block number is
\* not above the answer; nothing else emits it.
DiagnosticWhenLatestAnswered ==
    result.op = "environment" =>
        /\ NoBlock => result.err # "" /\ result.env = <<>>
        /\ result.warned <=> /\ NoBlock
                             /\ result.latest # <<>>
                             /\ result.block_number[1] <= result.latest[1]

\* a pinned block the remote has pruned, at the remote's latest number
PrunedAtLatest ==
    /\ NoBlock /\ result.pin_block # <<>> /\ result.warned
    /\ result.block_number[1] = result.latest[1]


\* C31: every method of the interface, eth_chainId, eth_coinbase and
\* anvil_setBlock among them, has a request variant, and execute hands a
\* request of the variant, its parameters being in range, to exactly one
\* handler.
DispatchTotal ==
    result.op = "execute" /\ result.fits =>
        /\ result.variants # {}
        /\ Cardinality(result.handlers) = 1

DetailedReturnsOwnBlocks ==
    (result.op = "evm_mine_detailed" /\ result.ret = "Ok") =>
        result.detailed = result.produced

\* C36: eth_getTransactionReceipt never answers null for a transaction that
\* a committed block holds, also between Backend::mine_block and
\* Pool::on_mined_block.
CommittedHasReceipt ==
    [][Returned("eth_getTransactionReceipt") =>
           (backend_transaction_receipt(result'.hash) # <<>> => result'.ret # <<>>)]_vars

\* both callers have returned from eth_sendTransaction for the same sender
\* with requests that name no nonce
BothOmittedNonce ==
    \A c \in Callers :
        /\ calls[c].op = "eth_sendTransaction"
        /\ calls[c].pc = "returned"
        /\ calls[c].from = calls[1].from
        /\ ~Has(calls[c].request, "nonce")

\* C37: two calls of eth_sendTransaction for one sender that name no nonce
\* and run side by side are given two nonces that follow each other, and
\* both transactions are in the pool afterwards.
SideBySideNonces ==
    BothOmittedNonce =>
        /\ \A c \in Callers :
            /\ calls[c].ret = "Ok"
            /\ \E i \in 1..Len(pool) :
                /\ pool[i].provides = <<to_marker(calls[c].nonce, calls[c].from)>>
                /\ pool[i].gas_price = calls[c].request.gas_price
        /\ \/ calls[1].nonce = calls[2].nonce + 1
           \/ calls[2].nonce = calls[1].nonce + 1

\* C38: no transaction is held by more than one committed block, also when
\* two runs of mine_one collect the same ready transactions before either
\* tells the pool what it mined.
NoTransactionTwice ==
    \A m, n \in 1..Len(blocks) :
        \A i \in 1..Len(blocks[m].transactions), j \in 1..Len(blocks[n].transactions) :
            blocks[m].transactions[i] = blocks[n].transactions[j] => (m = n /\ i = j)

\* both callers collected the same transaction and both mined a block before
\* either told the pool; one of the two blocks holds the transaction
BothMinedTheSame ==
    /\ \A c \in Callers :
        /\ calls[c].op = "mine_one"
        /\ calls[c].pc = "mined"
        /\ calls[c].transactions = calls[1].transactions
    /\ calls[1].transactions # <<>>
    /\ Len(blocks) = 2
    /\ blocks[1].transactions # <<>>
    /\ blocks[2].transactions = <<>>
====
